---- MODULE Spec2Model ----
(***************************************************************************)
(* Data pipeline and idempotent persistence layer of the eToro trading     *)
(* assistant: the candle / instrument / snapshot repositories over the     *)
(* SurrealDB store, the response normaliser, and the pipeline orchestrator *)
(* (Orchestrator.run_data_pipeline).                                        *)
(*                                                                         *)
(* The store is the database with the schema of db/schema.py applied: the  *)
(* candle table carries the compound unique index idx_candle_lookup, the   *)
(* instrument table the unique indexes idx_symbol and idx_etoro_id.        *)
(* A candle's open/high/low/close/volume are carried by one field, close;  *)
(* timestamps are instants.                                                *)
(***************************************************************************)
EXTENDS Integers, Sequences, FiniteSets, Bags, TLC

\* ------------------------------------------------------------------------
\* Bounds and input domains
\* ------------------------------------------------------------------------
MaxBatch == 2
MaxRuns == 2
MaxSnapshots == 2
MaxRetries == 4
MaxSessions == 2
MaxApplies == 3
MaxListLen == 2
MaxReports == 1
MaxRecommendations == 1
MaxLookups == 3
MaxTime == 2

InstrumentIds == {1, 2}
Symbols == {"A", "B"}

\* (instrument, timeframe) pairs used by direct bulk_insert_candles calls
InsertTargets == {<<1, "1d">>, <<1, "1w">>}

\* run_type arguments handed to run_data_pipeline (test_orchestrator.py:485-498)
RunTypeArgs == {"market_open", "market_close", "Market_Open", "invalid", ""}

\* behaviour of one storage round trip: it answers normally, answers with an
\* error result that is not a duplicate-key conflict, or raises
StorageFaults == {"none", "error_result", "exception"}

SeqsUpTo(S, n) == UNION {[1..k -> S] : k \in 0..n}

\* a Candle model (etoro/models.py:69-78)
Candle == {[timestamp |-> 1, close |-> 1], [timestamp |-> 1, close |-> 2],
           [timestamp |-> 2, close |-> 1]}
CandleBatches == SeqsUpTo(Candle, MaxBatch)

\* ------------------------------------------------------------------------
\* Python values returned by the storage driver
\* ------------------------------------------------------------------------
PyNone == [t |-> "none"]
PyStr(s) == [t |-> "str", v |-> s]
PyDict(d) == [t |-> "dict", v |-> d]
PyList(l) == [t |-> "list", v |-> l]

\* the text of the store's unique-index violation, and of any other error
DupText == "Database index already contains"
OtherErrText == "There was a problem with the database"

\* ------------------------------------------------------------------------
\* db/utils.py
\* ------------------------------------------------------------------------
\* the shapes the driver's calls hand back, and malformed ones
Records == {PyDict([id |-> 1]), PyDict([id |-> 2])}
InnerValues ==
    {PyNone, PyStr("unexpected"), PyDict([symbol |-> "A"]), PyList(<<>>),
     PyList(<<PyDict([symbol |-> "A"])>>),
     PyList(<<PyDict([symbol |-> "A"]), PyDict([symbol |-> "B"])>>),
     PyList(<<PyStr("unexpected")>>)}
Wrappers == {PyDict([result |-> v, status |-> "OK"]) : v \in InnerValues}
Items == {PyNone, PyStr("unexpected")} \cup Records \cup Wrappers
Responses ==
    {PyNone, PyStr("unexpected")} \cup Records \cup Wrappers
    \cup {PyList(l) : l \in SeqsUpTo(Items, MaxListLen)}

normalise_response(result) ==
    IF result.t = "none" THEN <<>>
    ELSE IF result.t = "dict" THEN <<result>>
    ELSE IF result.t = "list" THEN
        IF Len(result.v) = 0 THEN <<>>
        ELSE LET first == result.v[1] IN
             IF first.t = "dict" /\ "result" \in DOMAIN first.v THEN
                 LET inner == first.v["result"] IN
                 IF inner.t = "list" THEN inner.v
                 ELSE IF inner.t = "dict" THEN <<inner>>
                 ELSE <<>>
             ELSE IF first.t = "dict" THEN result.v
             ELSE <<>>
    ELSE <<>>

first_or_none(result) ==
    LET records == normalise_response(result) IN
    IF Len(records) > 0 THEN records[1] ELSE PyNone

\* ------------------------------------------------------------------------
\* The candle table (db/schema.py: candle, idx_candle_lookup UNIQUE)
\* ------------------------------------------------------------------------
CandleKey(r) == <<r.instrument, r.timeframe, r.timestamp>>

\* faulty variant: idx_candle_lookup defined without UNIQUE
IndexViolationNotUnique(table, row) == FALSE

\* the unique index rejects a row whose key is already held
IndexViolation(table, row) ==
    \E r \in BagToSet(table) : CandleKey(r) = CandleKey(row)

\* faulty variant: the single-row statement writes past the index
DbInsertRowUnchecked(table, row) ==
    [table |-> table (+) SetToBag({row}),
     result |-> PyList(<<PyDict(row)>>)]

\* INSERT INTO candle {row}: one statement, one row
DbInsertRow(table, row) ==
    IF IndexViolation(table, row)
    THEN [table |-> table, result |-> PyStr(DupText)]
    ELSE [table |-> table (+) SetToBag({row}),
          result |-> PyList(<<PyDict(row)>>)]

RECURSIVE ApplyRowsOverwrite(_, _, _)
\* faulty variant: a row replaces the stored row that holds its key
ApplyRowsOverwrite(table, rows, i) ==
    IF i > Len(rows) THEN [ok |-> TRUE, table |-> table]
    ELSE LET others == {r \in BagToSet(table) :
                          CandleKey(r) # CandleKey(rows[i])}
             kept == [r \in others |-> table[r]]
         IN ApplyRowsOverwrite(kept (+) SetToBag({rows[i]}), rows, i + 1)

RECURSIVE ApplyRows(_, _, _)
\* the rows of one statement applied in order to a working copy
ApplyRows(table, rows, i) ==
    IF i > Len(rows) THEN [ok |-> TRUE, table |-> table]
    ELSE IF IndexViolation(table, rows[i]) THEN [ok |-> FALSE, table |-> table]
    ELSE ApplyRows(table (+) SetToBag({rows[i]}), rows, i + 1)

\* faulty variant: the bulk statement stores the rows and returns none of them
DbInsertManyReturnNone(table, rows) ==
    LET w == ApplyRows(table, rows, 1) IN
    IF w.ok
    THEN [table |-> w.table, result |-> PyList(<<>>)]
    ELSE [table |-> table, result |-> PyStr(DupText)]

\* INSERT INTO candle [rows]: one statement, atomic - a violation by any row
\* fails the statement and leaves the table as it was
DbInsertMany(table, rows) ==
    LET w == ApplyRows(table, rows, 1) IN
    IF w.ok
    THEN [table |-> w.table,
          result |-> PyList([i \in 1..Len(rows) |-> PyDict(rows[i])])]
    ELSE [table |-> table, result |-> PyStr(DupText)]

\* ------------------------------------------------------------------------
\* db/candles.py
\* ------------------------------------------------------------------------
CandleRow(candle, instrument_etoro_id, timeframe) ==
    [instrument |-> instrument_etoro_id, timeframe |-> timeframe,
     timestamp |-> candle.timestamp, close |-> candle.close]

RECURSIVE FallbackInsertKeepsAll(_, _, _, _)
\* faulty variant: the fallback loop appends a row for every candle, without
\* the `if row` test
FallbackInsertKeepsAll(table, rows, i, inserted) ==
    IF i > Len(rows) THEN [table |-> table, inserted |-> inserted]
    ELSE LET q == DbInsertRow(table, rows[i])
         IN FallbackInsertKeepsAll(q.table, rows, i + 1,
                                   Append(inserted, PyDict(rows[i])))

RECURSIVE FallbackInsertStopsAtDuplicate(_, _, _, _)
\* faulty variant: the fallback loop ends at the first duplicate
FallbackInsertStopsAtDuplicate(table, rows, i, inserted) ==
    IF i > Len(rows) THEN [table |-> table, inserted |-> inserted]
    ELSE LET q == DbInsertRow(table, rows[i])
             row == first_or_none(q.result)
         IN IF row = PyNone THEN [table |-> q.table, inserted |-> inserted]
            ELSE FallbackInsertStopsAtDuplicate(q.table, rows, i + 1,
                                                Append(inserted, row))

RECURSIVE FallbackInsert(_, _, _, _)
\* the row-by-row fallback loop of bulk_insert_candles
FallbackInsert(table, rows, i, inserted) ==
    IF i > Len(rows) THEN [table |-> table, inserted |-> inserted]
    ELSE LET q == DbInsertRow(table, rows[i])
             row == first_or_none(q.result)
         IN FallbackInsert(q.table, rows, i + 1,
                           IF row # PyNone THEN Append(inserted, row)
                           ELSE inserted)

\* faulty variant: no fallback when the bulk statement reports a duplicate
bulk_insert_candles_no_fallback(table, candles, instrument_etoro_id, timeframe, fault) ==
    IF Len(candles) = 0
    THEN [table |-> table, result |-> <<>>, raised |-> "none"]
    ELSE IF fault = "exception"
    THEN [table |-> table, result |-> <<>>, raised |-> "Exception"]
    ELSE
      LET rows == [i \in 1..Len(candles) |->
                     CandleRow(candles[i], instrument_etoro_id, timeframe)]
          q == IF fault = "error_result"
               THEN [table |-> table, result |-> PyStr(OtherErrText)]
               ELSE DbInsertMany(table, rows)
      IN [table |-> q.table, result |-> normalise_response(q.result),
          raised |-> "none"]

\* returns the table afterwards, the returned list and the exception raised
bulk_insert_candles(table, candles, instrument_etoro_id, timeframe, fault) ==
    IF Len(candles) = 0
    THEN [table |-> table, result |-> <<>>, raised |-> "none"]
    ELSE IF fault = "exception"
    THEN [table |-> table, result |-> <<>>, raised |-> "Exception"]
    ELSE
      LET rows == [i \in 1..Len(candles) |->
                     CandleRow(candles[i], instrument_etoro_id, timeframe)]
          q == IF fault = "error_result"
               THEN [table |-> table, result |-> PyStr(OtherErrText)]
               ELSE DbInsertMany(table, rows)
      IN IF q.result.t = "str" /\ q.result.v = DupText
         THEN LET f == FallbackInsert(q.table, rows, 1, <<>>) IN
              [table |-> f.table, result |-> f.inserted, raised |-> "none"]
         ELSE [table |-> q.table, result |-> normalise_response(q.result),
               raised |-> "none"]

count_candles(table, instrument_etoro_id, timeframe) ==
    LET matching == {r \in BagToSet(table) :
                       /\ r.instrument = instrument_etoro_id
                       /\ r.timeframe = timeframe}
        total == BagCardinality([r \in matching |-> table[r]])
        rows == IF total = 0 THEN <<>> ELSE <<[total |-> total]>>
    IN IF Len(rows) > 0 THEN rows[1].total ELSE 0

\* ------------------------------------------------------------------------
\* The instrument table (db/schema.py: instrument, idx_symbol and
\* idx_etoro_id UNIQUE) and db/instruments.py
\* ------------------------------------------------------------------------
\* faulty variant: idx_symbol defined without UNIQUE
UpsertViolationIdOnly(table, id, data) ==
    \E r \in table : r.id # id /\ r.etoro_id = data.etoro_id

\* an upsert of record instrument:<id> is rejected when another record
\* already holds its symbol or its external ID
UpsertViolation(table, id, data) ==
    \E r \in table : /\ r.id # id
                     /\ \/ r.symbol = data.symbol
                        \/ r.etoro_id = data.etoro_id

\* the option<T> fields of an instrument record; a value of None is the
\* empty set, a value x the set {x}
_OPTIONAL_FIELDS == {"exchange", "industry", "metadata"}

\* Instrument.exchange_id: Optional[int]
ExchangeIds == {{}, {5}}

\* the optional fields a driver response leaves out when their value is NONE
Omissions == SUBSET _OPTIONAL_FIELDS

\* the dict the driver returns for a stored record
DriverRecord(rec, omitted) ==
    LET full == [k \in DOMAIN rec \cup _OPTIONAL_FIELDS |->
                   IF k \in DOMAIN rec THEN rec[k] ELSE {}]
        keys == {k \in DOMAIN full : ~(k \in omitted /\ full[k] = {})}
    IN [k \in keys |-> full[k]]

\* faulty variant: the record is handed on as the driver returned it
_normalise_instrument_as_is(record) == record

\* record.setdefault(field, None) for every optional field
_normalise_instrument(record) ==
    IF record = PyNone THEN PyNone
    ELSE PyDict([k \in DOMAIN record.v \cup _OPTIONAL_FIELDS |->
                   IF k \in DOMAIN record.v THEN record.v[k] ELSE {}])

\* faulty variant: an existing record is kept as it is (no replacement)
DbUpsertKeepsExisting(table, id, data, drv, omitted) ==
    IF UpsertViolation(table, id, data)
    THEN [table |-> table, result |-> PyNone,
          raised |-> IF drv = "raise" THEN "Exception" ELSE "none"]
    ELSE LET rec == IF \E r \in table : r.id = id
                    THEN CHOOSE r \in table : r.id = id
                    ELSE [id |-> id] @@ data
         IN [table |-> {r \in table : r.id # id} \cup {rec},
             result |-> PyDict(DriverRecord(rec, omitted)),
             raised |-> "none"]

\* db.upsert(RecordID("instrument", id), data): full replacement of the
\* record; the driver reports a rejected write by raising or by returning no
\* record, according to `drv`
DbUpsert(table, id, data, drv, omitted) ==
    IF UpsertViolation(table, id, data)
    THEN [table |-> table, result |-> PyNone,
          raised |-> IF drv = "raise" THEN "Exception" ELSE "none"]
    ELSE LET rec == [id |-> id] @@ data IN
         [table |-> {r \in table : r.id # id} \cup {rec},
          result |-> PyDict(DriverRecord(rec, omitted)), raised |-> "none"]

_instrument_to_record(instrument) ==
    [etoro_id |-> instrument.instrument_id,
     symbol |-> instrument.symbol,
     name |-> instrument.name,
     exchange |-> {ToString(x) : x \in instrument.exchange_id}]

\* Python's `a or b` for a record or None
OrElse(a, b) == IF a # PyNone THEN a ELSE b

\* what upsert_instrument returns, given the outcome w of db.upsert:
\* `record = first_or_none(result) or data`, then
\* `_normalise_instrument(record) or record`
UpsertReturn(w, data) ==
    LET record == OrElse(first_or_none(w.result), PyDict(data)) IN
    [table |-> w.table,
     result |-> OrElse(_normalise_instrument(record), record),
     raised |-> w.raised]

upsert_instrument(table, instrument, drv, omitted) ==
    UpsertReturn(DbUpsert(table, instrument.instrument_id,
                          _instrument_to_record(instrument), drv, omitted),
                 _instrument_to_record(instrument))

\* SELECT * FROM instrument WHERE symbol = $symbol LIMIT 1
get_instrument_by_symbol(table, symbol, omitted) ==
    LET matching == {r \in table : r.symbol = symbol}
        result == IF matching = {} THEN PyList(<<>>)
                  ELSE PyList(<<PyDict(DriverRecord(
                                  CHOOSE r \in matching : TRUE, omitted))>>)
    IN _normalise_instrument(first_or_none(result))

\* db.select(RecordID("instrument", etoro_id))
get_instrument_by_etoro_id(table, etoro_id, omitted) ==
    LET matching == {r \in table : r.id = etoro_id}
        result == IF matching = {} THEN PyNone
                  ELSE PyDict(DriverRecord(CHOOSE r \in matching : TRUE,
                                           omitted))
    IN _normalise_instrument(first_or_none(result))

RECURSIVE RecordsById(_)
\* the records of the table in record-ID order
RecordsById(table) ==
    IF table = {} THEN <<>>
    ELSE LET m == CHOOSE r \in table : \A q \in table : r.id <= q.id
         IN <<m>> \o RecordsById(table \ {m})

\* db.select(Table("instrument"))
list_instruments(table, omitted) ==
    LET stored == RecordsById(table)
        result == PyList([i \in 1..Len(stored) |->
                            PyDict(DriverRecord(stored[i], omitted))])
        records == normalise_response(result)
    IN [i \in 1..Len(records) |->
          OrElse(_normalise_instrument(records[i]), records[i])]

\* ------------------------------------------------------------------------
\* db/snapshots.py
\* ------------------------------------------------------------------------
OrZero(opt) == IF opt = {} THEN 0 ELSE CHOOSE x \in opt : TRUE

\* faulty variant: open_positions counts the instruments held, not the
\* position entries
_portfolio_to_record_per_instrument(portfolio, run_type) ==
    LET total_pnl == OrZero(portfolio.unrealized_pnl)
        total_value == portfolio.credit + total_pnl
    IN [total_value |-> total_value,
        cash_available |-> portfolio.credit,
        open_positions |->
            Cardinality({portfolio.positions[i] :
                            i \in DOMAIN portfolio.positions}),
        total_pnl |-> total_pnl,
        positions |-> portfolio.positions,
        run_type |-> run_type]

_portfolio_to_record(portfolio, run_type) ==
    LET total_pnl == OrZero(portfolio.unrealized_pnl)
        total_value == portfolio.credit + total_pnl
    IN [total_value |-> total_value,
        cash_available |-> portfolio.credit,
        open_positions |-> Len(portfolio.positions),
        total_pnl |-> total_pnl,
        positions |-> portfolio.positions,
        run_type |-> run_type]

\* the shapes db.create can hand back: the created record, bare or in a
\* list, or a response that holds no created record
CreatedOutcomes == {"created", "created_list"}
CreateFailures == {"no_record", "empty_list", "error_string", "wrapped_null",
                   "unrecognised"}
CreateResponse(outcome, rec) ==
    CASE outcome = "created" -> PyDict(rec)
      [] outcome = "created_list" -> PyList(<<PyDict(rec)>>)
      [] outcome = "no_record" -> PyNone
      [] outcome = "empty_list" -> PyList(<<>>)
      [] outcome = "error_string" -> PyStr(OtherErrText)
      [] outcome = "wrapped_null" -> PyList(<<PyDict([result |-> PyNone])>>)
      [] OTHER -> PyList(<<PyStr(OtherErrText)>>)

\* faulty variant: the snapshot is written under one fixed record ID
DbCreateSnapshotFixedId(table, data, outcome) ==
    IF outcome \in CreatedOutcomes
    THEN LET rec == [id |-> 1] @@ data IN
         [table |-> <<rec>>, result |-> CreateResponse(outcome, rec)]
    ELSE [table |-> table, result |-> CreateResponse(outcome, data)]

\* db.create("portfolio_snapshot", data): a new record under a fresh identity,
\* or, when the write fails, no record
DbCreateSnapshot(table, data, outcome) ==
    IF outcome \in CreatedOutcomes
    THEN LET rec == [id |-> Len(table) + 1] @@ data IN
         [table |-> Append(table, rec), result |-> CreateResponse(outcome, rec)]
    ELSE [table |-> table, result |-> CreateResponse(outcome, data)]

\* faulty variant: a write that gave no record is passed over in silence
create_snapshot_no_raise(table, portfolio, run_type, outcome) ==
    LET data == _portfolio_to_record(portfolio, run_type)
        w == DbCreateSnapshot(table, data, outcome)
    IN [table |-> w.table, result |-> first_or_none(w.result),
        raised |-> "none"]

create_snapshot(table, portfolio, run_type, outcome) ==
    LET data == _portfolio_to_record(portfolio, run_type)
        w == DbCreateSnapshot(table, data, outcome)
        created == first_or_none(w.result)
    IN IF created = PyNone
       THEN [table |-> w.table, result |-> PyNone, raised |-> "RuntimeError"]
       ELSE [table |-> w.table, result |-> created, raised |-> "none"]

\* ------------------------------------------------------------------------
\* db/reports.py
\* ------------------------------------------------------------------------
\* An identifier string is the sequence of its pieces: a piece is either the
\* colon or a non-empty run of other characters.
IdStrings(tb) ==
    {<<>>, <<tb>>, <<":", "1">>, <<tb, ":">>,
     <<tb, ":", "1">>, <<tb, ":", "2">>, <<tb, ":", "1", ":", "2">>}
AnalysisIdStrings == {<<"analysis">>, <<"analysis", ":", "1">>}
RunIds == {"r1", "r2"}
RecordID(table, key) == [tb |-> table, id |-> key]

\* faulty variant: only the colon is required, the parts may be empty
_to_record_id_lenient(id_str) ==
    IF \A i \in 1..Len(id_str) : id_str[i] # ":"
    THEN [raised |-> "ValueError"]
    ELSE LET k == CHOOSE i \in 1..Len(id_str) :
                     id_str[i] = ":" /\ \A j \in 1..(i - 1) : id_str[j] # ":"
         IN [raised |-> "none",
             value |-> RecordID(SubSeq(id_str, 1, k - 1),
                                SubSeq(id_str, k + 1, Len(id_str)))]

_to_record_id(id_str) ==
    IF \A i \in 1..Len(id_str) : id_str[i] # ":"
    THEN [raised |-> "ValueError"]
    ELSE LET k == CHOOSE i \in 1..Len(id_str) :
                     id_str[i] = ":" /\ \A j \in 1..(i - 1) : id_str[j] # ":"
             table == SubSeq(id_str, 1, k - 1)
             key == SubSeq(id_str, k + 1, Len(id_str))
         IN IF table = <<>> \/ key = <<>>
            THEN [raised |-> "ValueError"]
            ELSE [raised |-> "none", value |-> RecordID(table, key)]

\* the shapes db.create can hand back for a report or a recommendation: as
\* for a snapshot, and also a record that carries no id field
ReportOutcomes == {"created", "no_id", "no_record", "error_string"}

\* the record ID the store gives to the n-th record of a table
NewId(tb, n) == RecordID(<<tb>>, <<ToString(n)>>)

\* db.create("report", data): idx_run_id keeps run_id unique
DbCreateReport(table, data, outcome) ==
    IF \E i \in 1..Len(table) : table[i].run_id = data.run_id
    THEN [table |-> table, result |-> PyStr(DupText)]
    ELSE IF outcome \in CreatedOutcomes
    THEN [table |-> Append(table, [id |-> NewId("report", Len(table) + 1)] @@ data),
          result |-> CreateResponse(outcome, [id |-> NewId("report", Len(table) + 1)] @@ data)]
    ELSE IF outcome = "no_id"
    THEN [table |-> table, result |-> PyDict(data)]
    ELSE [table |-> table, result |-> CreateResponse(outcome, data)]

\* lines 73-83 of create_report
ReportReturn(w) ==
    IF first_or_none(w.result) = PyNone
    THEN [table |-> w.table, result |-> PyNone, raised |-> "RuntimeError",
          db_calls |-> 1]
    ELSE [table |-> w.table, result |-> first_or_none(w.result),
          raised |-> "none", db_calls |-> 1]

create_report(table, run_id, run_type, snapshot_id, outcome) ==
    IF _to_record_id(snapshot_id).raised # "none"
    THEN [table |-> table, result |-> PyNone, raised |-> "ValueError",
          db_calls |-> 0]
    ELSE ReportReturn(DbCreateReport(table,
             [run_id |-> run_id, run_type |-> run_type,
              portfolio_snapshot |-> _to_record_id(snapshot_id).value],
             outcome))

\* db.create("recommendation", data): report, instrument and analysis are
\* declared `TYPE record<...>`, which fixes the table of a link; nothing in
\* the schema asserts that the record a link names exists
DbCreateRecommendation(table, data, outcome) ==
    IF outcome \in CreatedOutcomes
    THEN [table |-> Append(table, [id |-> NewId("recommendation", Len(table) + 1)] @@ data),
          result |-> CreateResponse(outcome, [id |-> NewId("recommendation", Len(table) + 1)] @@ data)]
    ELSE IF outcome = "no_id"
    THEN [table |-> table, result |-> PyDict(data)]
    ELSE [table |-> table, result |-> CreateResponse(outcome, data)]

\* faulty variant: a record is only required to be present, as in create_report
RecommendationReturnAnyRecord(w) ==
    IF first_or_none(w.result) = PyNone
    THEN [table |-> w.table, result |-> PyNone, raised |-> "ValueError",
          db_calls |-> 1]
    ELSE [table |-> w.table, result |-> first_or_none(w.result),
          raised |-> "none", db_calls |-> 1]

\* lines 196-208 of create_recommendation
RecommendationReturn(w) ==
    IF \/ first_or_none(w.result).t # "dict"
       \/ "id" \notin DOMAIN first_or_none(w.result).v
    THEN [table |-> w.table, result |-> PyNone, raised |-> "ValueError",
          db_calls |-> 1]
    ELSE [table |-> w.table, result |-> first_or_none(w.result),
          raised |-> "none", db_calls |-> 1]

create_recommendation(table, report_id, instrument_etoro_id, analysis_id, outcome) ==
    IF \/ _to_record_id(report_id).raised # "none"
       \/ _to_record_id(analysis_id).raised # "none"
    THEN [table |-> table, result |-> PyNone, raised |-> "ValueError",
          db_calls |-> 0]
    ELSE RecommendationReturn(DbCreateRecommendation(table,
             [report |-> _to_record_id(report_id).value,
              instrument |-> RecordID(<<"instrument">>, instrument_etoro_id),
              analysis |-> _to_record_id(analysis_id).value],
             outcome))

\* SELECT * FROM recommendation WHERE report = $report
get_recommendations_for_report(table, report_id) ==
    IF _to_record_id(report_id).raised # "none"
    THEN [result |-> <<>>, raised |-> "ValueError", db_calls |-> 0]
    ELSE [result |-> normalise_response(PyList(
                        [i \in 1..Len(SelectSeq(table,
                             LAMBDA r : r.report = _to_record_id(report_id).value)) |->
                           PyDict(SelectSeq(table,
                             LAMBDA r : r.report = _to_record_id(report_id).value)[i])])),
          raised |-> "none", db_calls |-> 1]

\* ------------------------------------------------------------------------
\* db/schema.py
\* ------------------------------------------------------------------------
\* one DEFINE statement: the kind of the thing defined, its name, the table
\* it is on and the words of its clause.  The store keeps, for every thing
\* defined, the clause of its definition.
Def(kind, name, on, clause) ==
    [kind |-> kind, name |-> name, on |-> on, clause |-> clause]

SCHEMA ==
    <<Def("table", "instrument", "instrument", <<"SCHEMAFULL">>),
      Def("field", "etoro_id", "instrument", <<"TYPE", "int">>),
      Def("field", "symbol", "instrument", <<"TYPE", "string">>),
      Def("field", "name", "instrument", <<"TYPE", "string">>),
      Def("field", "asset_class", "instrument", <<"TYPE", "string">>),
      Def("field", "exchange", "instrument", <<"TYPE", "option<string>">>),
      Def("field", "industry", "instrument", <<"TYPE", "option<string>">>),
      Def("field", "is_active", "instrument", <<"TYPE", "bool", "DEFAULT", "true">>),
      Def("field", "metadata", "instrument", <<"TYPE", "option<object>">>),
      Def("field", "updated_at", "instrument", <<"TYPE", "datetime", "DEFAULT", "time::now()">>),
      Def("index", "idx_symbol", "instrument", <<"symbol", "UNIQUE">>),
      Def("index", "idx_etoro_id", "instrument", <<"etoro_id", "UNIQUE">>),
      Def("table", "candle", "candle", <<"SCHEMAFULL">>),
      Def("field", "instrument", "candle", <<"TYPE", "record<instrument>">>),
      Def("field", "timeframe", "candle", <<"TYPE", "string">>),
      Def("field", "open", "candle", <<"TYPE", "float">>),
      Def("field", "high", "candle", <<"TYPE", "float">>),
      Def("field", "low", "candle", <<"TYPE", "float">>),
      Def("field", "close", "candle", <<"TYPE", "float">>),
      Def("field", "volume", "candle", <<"TYPE", "option<float>">>),
      Def("field", "timestamp", "candle", <<"TYPE", "datetime">>),
      Def("index", "idx_candle_lookup", "candle", <<"instrument", "timeframe", "timestamp", "UNIQUE">>),
      Def("table", "portfolio_snapshot", "portfolio_snapshot", <<"SCHEMAFULL">>),
      Def("field", "total_value", "portfolio_snapshot", <<"TYPE", "float">>),
      Def("field", "cash_available", "portfolio_snapshot", <<"TYPE", "float">>),
      Def("field", "open_positions", "portfolio_snapshot", <<"TYPE", "int">>),
      Def("field", "total_pnl", "portfolio_snapshot", <<"TYPE", "float">>),
      Def("field", "positions", "portfolio_snapshot", <<"TYPE", "array">>),
      Def("field", "positions.*", "portfolio_snapshot", <<"FLEXIBLE", "TYPE", "object">>),
      Def("field", "run_type", "portfolio_snapshot", <<"TYPE", "string">>),
      Def("field", "captured_at", "portfolio_snapshot", <<"TYPE", "datetime", "DEFAULT", "time::now()">>),
      Def("table", "analysis", "analysis", <<"SCHEMAFULL">>),
      Def("field", "instrument", "analysis", <<"TYPE", "record<instrument>">>),
      Def("field", "run_id", "analysis", <<"TYPE", "string">>),
      Def("field", "trend", "analysis", <<"TYPE", "string">>),
      Def("field", "trend_strength", "analysis", <<"TYPE", "float">>),
      Def("field", "price_action", "analysis", <<"TYPE", "object">>),
      Def("field", "sector_context", "analysis", <<"TYPE", "option<object>">>),
      Def("field", "raw_data", "analysis", <<"TYPE", "object">>),
      Def("field", "created_at", "analysis", <<"TYPE", "datetime", "DEFAULT", "time::now()">>),
      Def("table", "report", "report", <<"SCHEMAFULL">>),
      Def("field", "run_id", "report", <<"TYPE", "string">>),
      Def("field", "run_type", "report", <<"TYPE", "string">>),
      Def("field", "portfolio_snapshot", "report", <<"TYPE", "record<portfolio_snapshot>">>),
      Def("field", "recommendations", "report", <<"TYPE", "array">>),
      Def("field", "recommendations.*", "report", <<"FLEXIBLE", "TYPE", "object">>),
      Def("field", "commentary", "report", <<"TYPE", "string">>),
      Def("field", "summary", "report", <<"TYPE", "string">>),
      Def("field", "report_markdown", "report", <<"TYPE", "string">>),
      Def("field", "created_at", "report", <<"TYPE", "datetime", "DEFAULT", "time::now()">>),
      Def("index", "idx_run_id", "report", <<"run_id", "UNIQUE">>),
      Def("table", "recommendation", "recommendation", <<"SCHEMAFULL">>),
      Def("field", "report", "recommendation", <<"TYPE", "record<report>">>),
      Def("field", "instrument", "recommendation", <<"TYPE", "record<instrument>">>),
      Def("field", "action", "recommendation", <<"TYPE", "string">>),
      Def("field", "conviction", "recommendation", <<"TYPE", "string">>),
      Def("field", "reasoning", "recommendation", <<"TYPE", "string">>),
      Def("field", "analysis", "recommendation", <<"TYPE", "record<analysis>">>),
      Def("field", "created_at", "recommendation", <<"TYPE", "datetime", "DEFAULT", "time::now()">>),
      Def("table", "run_log", "run_log", <<"SCHEMAFULL">>),
      Def("field", "run_id", "run_log", <<"TYPE", "string">>),
      Def("field", "run_type", "run_log", <<"TYPE", "string">>),
      Def("field", "status", "run_log", <<"TYPE", "string">>),
      Def("field", "instruments_analysed", "run_log", <<"TYPE", "int">>),
      Def("field", "recommendations_made", "run_log", <<"TYPE", "int">>),
      Def("field", "errors", "run_log", <<"TYPE", "option<array>">>),
      Def("field", "errors.*", "run_log", <<"FLEXIBLE", "TYPE", "object">>),
      Def("field", "duration_ms", "run_log", <<"TYPE", "option<int>">>),
      Def("field", "started_at", "run_log", <<"TYPE", "datetime", "DEFAULT", "time::now()">>),
      Def("field", "completed_at", "run_log", <<"TYPE", "option<datetime>">>),
      Def("table", "config", "config", <<"SCHEMAFULL">>),
      Def("field", "key", "config", <<"TYPE", "string">>),
      Def("field", "value", "config", <<"TYPE", "object">>),
      Def("field", "updated_at", "config", <<"TYPE", "datetime", "DEFAULT", "time::now()">>),
      Def("index", "idx_config_key", "config", <<"key", "UNIQUE">>)>>

EXPECTED_TABLES ==
    {"instrument", "candle", "portfolio_snapshot", "analysis", "report",
     "recommendation", "run_log", "config"}

EXPECTED_INDEXES ==
    {"idx_symbol", "idx_etoro_id", "idx_candle_lookup", "idx_run_id",
     "idx_config_key"}

DefKey(d) == <<d.kind, d.name, d.on>>

\* faulty variant: DEFINE without OVERWRITE, which keeps an existing definition
DefinedIfNotExists(statements, defs, k) ==
    IF k \in DOMAIN defs THEN defs[k]
    ELSE statements[CHOOSE i \in DOMAIN statements :
                      /\ DefKey(statements[i]) = k
                      /\ \A j \in 1..(i - 1) : DefKey(statements[j]) # k].clause

\* DEFINE ... OVERWRITE, statement after statement: what stands for k in the
\* end is the last statement that defines k, or else what the store had
Defined(statements, defs, k) ==
    IF \E i \in DOMAIN statements : DefKey(statements[i]) = k
    THEN statements[CHOOSE i \in DOMAIN statements :
                      /\ DefKey(statements[i]) = k
                      /\ \A j \in (i + 1)..Len(statements) :
                            DefKey(statements[j]) # k].clause
    ELSE defs[k]

\* db.query(statements)
RunStatements(statements, defs) ==
    [k \in DOMAIN defs \cup {DefKey(statements[i]) : i \in DOMAIN statements}
       |-> Defined(statements, defs, k)]

apply_schema(defs) == [defs |-> RunStatements(SCHEMA, defs), raised |-> "none"]

\* the definitions a store holds before apply_schema is first called on it:
\* none, or those of an earlier layout
NoDefs == <<>>
LegacyDefs ==
    (<<"table", "instrument", "instrument">> :> <<"SCHEMALESS">>)
    @@ (<<"index", "idx_symbol", "instrument">> :> <<"symbol">>)
    @@ (<<"field", "ticker", "instrument">> :> <<"TYPE", "string">>)
StartDefs == {NoDefs, LegacyDefs}

\* ------------------------------------------------------------------------
\* etoro/client.py
\* ------------------------------------------------------------------------
\* what one HTTP attempt gives: httpx.RequestError, or a response
NoResponse == [exc |-> "none", status |-> 0]
TransportError == [exc |-> "RequestError", status |-> 0]
Response(status) == [exc |-> "none", status |-> status]
Statuses == {200, 302, 400, 401, 403, 404, 429, 499, 500, 599}
ServerOutcomes == {TransportError} \cup {Response(st) : st \in Statuses}

\* max_retries and backoff_base (in milliseconds) of the client
RetrySettings == 0..MaxRetries
BackoffBases == {10, 500}

\* faulty variant: the delay grows by backoff_base with every attempt
_sleep_backoff_linear(backoff_base, attempt) == backoff_base * attempt

\* the delay _sleep_backoff sleeps
_sleep_backoff(backoff_base, attempt) == backoff_base * 2^(attempt - 1)

\* faulty variant: 401 and 403 are handled like any other 4xx
AttemptResultNoAuth(outcome, attempt, max_retries) ==
    IF outcome.exc # "none"
    THEN IF attempt >= max_retries THEN "EToroRequestError" ELSE "retry"
    ELSE IF outcome.status = 429 \/ outcome.status \in 500..599
    THEN IF attempt >= max_retries THEN "EToroRequestError" ELSE "retry"
    ELSE IF outcome.status \in 400..499 THEN "EToroRequestError"
    ELSE "return"

\* one pass of the loop of request (lines 78-117): what it ends in
AttemptResult(outcome, attempt, max_retries) ==
    IF outcome.exc # "none"
    THEN IF attempt >= max_retries THEN "EToroRequestError" ELSE "retry"
    ELSE IF outcome.status \in {401, 403} THEN "EToroAuthError"
    ELSE IF outcome.status = 429 \/ outcome.status \in 500..599
    THEN IF attempt >= max_retries THEN "EToroRequestError" ELSE "retry"
    ELSE IF outcome.status \in 400..499 THEN "EToroRequestError"
    ELSE "return"

\* ------------------------------------------------------------------------
\* etoro/market_data.py: instrument lookups through an EToroClient
\* ------------------------------------------------------------------------
\* text is a sequence of the characters "A", "a" and "b", so that lower(),
\* upper() and `in` are computed
lower(t) == [i \in DOMAIN t |-> IF t[i] = "A" THEN "a" ELSE t[i]]
upper(t) == [i \in DOMAIN t |-> IF t[i] = "a" THEN "A" ELSE t[i]]

\* Python's `q in t` on strings
Within(q, t) ==
    \E i \in 0..(Len(t) - Len(q)) : SubSeq(t, i + 1, i + Len(q)) = q

\* Python's matches[start:end]
Slice(l, start, end) ==
    SubSeq(l, start + 1, IF end < Len(l) THEN end ELSE Len(l))

\* what GET /market-data/instruments answers: the request fails, the body
\* is not an instrument list, or a list of instrumentDisplayDatas entries
\* (valid: Instrument.model_validate accepts the entry)
CatalogResponses ==
    {[outcome |-> "EToroRequestError"], [outcome |-> "ValidationError"]}
    \cup {[outcome |-> "ok", items |-> l] :
            l \in {<<>>,
                   <<[instrumentID |-> 1, symbolFull |-> <<"A", "b">>,
                      instrumentDisplayName |-> <<"a">>, valid |-> TRUE],
                     [instrumentID |-> 2, symbolFull |-> <<"b">>,
                      instrumentDisplayName |-> <<"A", "b">>, valid |-> TRUE]>>,
                   <<[instrumentID |-> 1, symbolFull |-> <<"A", "b">>,
                      instrumentDisplayName |-> <<"a">>, valid |-> FALSE],
                     [instrumentID |-> 2, symbolFull |-> <<"a", "b">>,
                      instrumentDisplayName |-> <<"b">>, valid |-> TRUE]>>}}

Queries == {<<>>, <<"a">>, <<"A", "b">>, <<"b", "b">>}
PageSizes == {0, 1, 20}
PageNumbers == {0, 1, 2}

\* the matching entries in catalog order; an entry that fails validation
\* is skipped
RECURSIVE Matches(_, _, _)
Matches(items, i, query_lower) ==
    IF i > Len(items) THEN <<>>
    ELSE LET item == items[i]
             hit == /\ \/ Within(query_lower, lower(item.symbolFull))
                       \/ Within(query_lower, lower(item.instrumentDisplayName))
                    /\ item.valid
         IN (IF hit THEN <<item>> ELSE <<>>)
            \o Matches(items, i + 1, query_lower)

\* search_instruments; requests: the client.get calls it made
search_instruments(response, query, page_size, page_number) ==
    IF page_size < 1 \/ page_number < 1
    THEN [result |-> <<>>, raised |-> "ValueError", requests |-> 0]
    ELSE IF response.outcome # "ok"
    THEN [result |-> <<>>, raised |-> response.outcome, requests |-> 1]
    ELSE [result |-> Slice(Matches(response.items, 1, lower(query)),
                           (page_number - 1) * page_size,
                           (page_number - 1) * page_size + page_size),
          raised |-> "none",
          requests |-> 1]

\* the first entry with exactly this symbol (whatever the case) that
\* validates
RECURSIVE FirstWithSymbol(_, _, _)
FirstWithSymbol(items, i, symbol_upper) ==
    IF i > Len(items) THEN <<>>
    ELSE IF upper(items[i].symbolFull) = symbol_upper /\ items[i].valid
    THEN <<items[i]>>
    ELSE FirstWithSymbol(items, i + 1, symbol_upper)

\* get_instrument_by_symbol of market_data.py (the repository has a
\* function of the same name)
api_get_instrument_by_symbol(response, symbol) ==
    IF response.outcome # "ok"
    THEN [result |-> <<>>, raised |-> response.outcome, requests |-> 1]
    ELSE LET found == FirstWithSymbol(response.items, 1, upper(symbol)) IN
         [result |-> found,
          raised |-> IF found = <<>> THEN "InstrumentNotFoundError"
                     ELSE "none",
          requests |-> 1]

\* ------------------------------------------------------------------------
\* orchestrator.py
\* ------------------------------------------------------------------------
\* responses of the external collaborators
Portfolios ==
    {[positions |-> <<>>, credit |-> 10, unrealized_pnl |-> {}],
     [positions |-> <<1>>, credit |-> 10, unrealized_pnl |-> {3}],
     [positions |-> <<2, 1, 2>>, credit |-> 10, unrealized_pnl |-> {3}]}

EToroErrors == {"EToroRequestError", "EToroAuthError"}

PortfolioOutcomes ==
    {[outcome |-> e] : e \in EToroErrors \cup {"ValidationError"}}
    \cup {[outcome |-> "ok", portfolio |-> p] : p \in Portfolios}

SnapshotOutcomes == {"created", "no_record"}

\* one catalog: per instrument ID no entry, an entry with a symbol, or an
\* entry that fails Instrument validation
CatalogItems(f) ==
    {[instrumentID |-> i, symbolFull |-> f[i], valid |-> f[i] \in Symbols] :
        i \in {j \in DOMAIN f : f[j] # "absent"}}

Catalogs ==
    {<<"absent", "absent">>, <<"A", "absent">>, <<"A", "B">>, <<"A", "A">>,
     <<"B", "A">>, <<"invalid", "B">>}

CatalogOutcomes ==
    {[outcome |-> e] : e \in EToroErrors \cup {"ValidationError"}}
    \cup {[outcome |-> "ok", items |-> CatalogItems(f)] : f \in Catalogs}

\* candle lists the market-data collaborator returns: none, two days, and
\* the same day twice
FetchedBatches ==
    {<<>>,
     <<[timestamp |-> 1, close |-> 1], [timestamp |-> 2, close |-> 1]>>,
     <<[timestamp |-> 1, close |-> 1], [timestamp |-> 1, close |-> 2]>>}

CandleOutcomes ==
    {[outcome |-> "EToroRequestError"]}
    \cup {[outcome |-> "ok", candles |-> b] : b \in FetchedBatches}

\* faulty variant: run_type compared without regard to case
ValidRunTypeAnyCase(run_type) ==
    run_type \in {"market_open", "market_close", "Market_Open"}

ValidRunType(run_type) == run_type \in {"market_open", "market_close"}

RECURSIVE SortedSeq(_)
SortedSeq(S) ==
    IF S = {} THEN <<>>
    ELSE LET m == CHOOSE x \in S : \A y \in S : x <= y
         IN <<m>> \o SortedSeq(S \ {m})

\* faulty variant: one entry per position, in portfolio order
InstrumentIdsOfPositions(portfolio) == portfolio.positions

\* sorted({pos.instrument_id for pos in portfolio.positions})
InstrumentIdsOf(portfolio) ==
    SortedSeq({portfolio.positions[i] : i \in 1..Len(portfolio.positions)})

\* faulty variant: no early return for a portfolio without positions
EarlyReturnNever(instrument_ids) == FALSE

\* `if not instrument_ids:` - the early return
EarlyReturn(instrument_ids) == instrument_ids = <<>>

\* faulty variant: the snapshot is written after the per-instrument work
NextStageSnapshotLast(stage, empty) ==
    CASE stage = "fetch_portfolio" -> "resolve_instruments"
      [] stage = "resolve_instruments" -> "process_instruments"
      [] stage = "process_instruments" -> "create_snapshot"
      [] stage = "create_snapshot" -> "done"

\* the order of the stages of run_data_pipeline
NextStage(stage, empty) ==
    CASE stage = "fetch_portfolio" -> "create_snapshot"
      [] stage = "create_snapshot" ->
            IF empty THEN "done" ELSE "resolve_instruments"
      [] stage = "resolve_instruments" -> "process_instruments"
      [] stage = "process_instruments" -> "done"

Event(op, id, exc) == [op |-> op, id |-> id, exc |-> exc]

\* faulty variant: a failed portfolio fetch is logged and the run goes on
PortfolioFetchSwallowed(outcome) == "none"

\* get_portfolio and its except clause: which exception leaves the run
PortfolioFetchRaises(outcome) ==
    IF outcome.outcome \in EToroErrors THEN "PipelineError"
    ELSE IF outcome.outcome = "ValidationError" THEN "ValidationError"
    ELSE "none"

\* Orchestrator._resolve_instruments: the metadata map, or the exception that
\* leaves it
\* faulty variant: an entry that fails Instrument validation is kept
_resolve_instruments_keeps_invalid(instrument_ids, outcome) ==
    IF outcome.outcome \in EToroErrors
    THEN [map |-> <<>>, raised |-> "none"]
    ELSE IF outcome.outcome = "ValidationError"
    THEN [map |-> <<>>, raised |-> "ValidationError"]
    ELSE LET wanted == {instrument_ids[i] : i \in 1..Len(instrument_ids)}
             found == {it \in outcome.items : it.instrumentID \in wanted}
         IN [map |-> [iid \in {it.instrumentID : it \in found} |->
                        LET it == CHOOSE x \in found : x.instrumentID = iid
                        IN [instrument_id |-> iid, symbol |-> it.symbolFull,
                            name |-> "n1", exchange_id |-> {}]],
             raised |-> "none"]

_resolve_instruments(instrument_ids, outcome) ==
    IF outcome.outcome \in EToroErrors
    THEN [map |-> <<>>, raised |-> "none"]
    ELSE IF outcome.outcome = "ValidationError"
    THEN [map |-> <<>>, raised |-> "ValidationError"]
    ELSE LET wanted == {instrument_ids[i] : i \in 1..Len(instrument_ids)}
             found == {it \in outcome.items :
                         it.instrumentID \in wanted /\ it.valid}
         IN [map |-> [iid \in {it.instrumentID : it \in found} |->
                        LET it == CHOOSE x \in found : x.instrumentID = iid
                        IN [instrument_id |-> iid, symbol |-> it.symbolFull,
                            name |-> "n1", exchange_id |-> {}]],
             raised |-> "none"]

\* faulty variant: the metadata upsert sits outside the try block
process_instrument_upsert_outside_try(iid, instrument_map, itable, ctable, drv, cand, fault) ==
    LET hasMeta == iid \in DOMAIN instrument_map
        u == IF hasMeta
             THEN upsert_instrument(itable, instrument_map[iid], drv,
                                    _OPTIONAL_FIELDS)
             ELSE [table |-> itable, result |-> PyNone, raised |-> "none"]
        evU == IF hasMeta
               THEN <<Event("upsert_instrument", iid, u.raised)>>
               ELSE <<>>
    IN IF u.raised # "none"
       THEN [instruments |-> u.table, candles |-> ctable, events |-> evU,
             error |-> "none", inserted |-> 0, escaped |-> u.raised]
       ELSE IF cand.outcome # "ok"
       THEN [instruments |-> u.table, candles |-> ctable,
             events |-> Append(evU, Event("get_candles", iid, cand.outcome)),
             error |-> cand.outcome, inserted |-> 0, escaped |-> "none"]
       ELSE LET b == bulk_insert_candles(ctable, cand.candles, iid, "1d",
                                         fault)
                evs == evU \o <<Event("get_candles", iid, "none"),
                                Event("bulk_insert_candles", iid, b.raised)>>
            IN [instruments |-> u.table, candles |-> b.table, events |-> evs,
                error |-> b.raised, inserted |-> Len(b.result),
                escaped |-> "none"]

\* one iteration of the per-instrument loop: the try block and its handler.
\* `cand` is the candle collaborator's response and `fault` the behaviour of
\* the insert round trip; each is used only if the iteration gets that far.
\* The record upsert_instrument returns is discarded by the loop.
process_instrument(iid, instrument_map, itable, ctable, drv, cand, fault) ==
    LET hasMeta == iid \in DOMAIN instrument_map
        u == IF hasMeta
             THEN upsert_instrument(itable, instrument_map[iid], drv,
                                    _OPTIONAL_FIELDS)
             ELSE [table |-> itable, result |-> PyNone, raised |-> "none"]
        evU == IF hasMeta
               THEN <<Event("upsert_instrument", iid, u.raised)>>
               ELSE <<>>
    IN IF u.raised # "none"
       THEN [instruments |-> u.table, candles |-> ctable, events |-> evU,
             error |-> u.raised, inserted |-> 0, escaped |-> "none"]
       ELSE IF cand.outcome # "ok"
       THEN [instruments |-> u.table, candles |-> ctable,
             events |-> Append(evU, Event("get_candles", iid, cand.outcome)),
             error |-> cand.outcome, inserted |-> 0, escaped |-> "none"]
       ELSE LET b == bulk_insert_candles(ctable, cand.candles, iid, "1d",
                                         fault)
                evs == evU \o <<Event("get_candles", iid, "none"),
                                Event("bulk_insert_candles", iid, b.raised)>>
            IN [instruments |-> u.table, candles |-> b.table, events |-> evs,
                error |-> b.raised, inserted |-> Len(b.result),
                escaped |-> "none"]

\* faulty variant: instruments_processed counts every loop iteration
SummariseCountsIterations(r) ==
    [run_type |-> r.run_type,
     snapshot_id |-> r.snapshot_id,
     instruments_processed |-> Len(r.instruments_processed) + Len(r.errors),
     instruments_failed |-> Len(r.errors),
     candle_counts |-> r.candle_counts,
     errors |-> r.errors]

\* the summary dict returned by run_data_pipeline
Summarise(r) ==
    [run_type |-> r.run_type,
     snapshot_id |-> r.snapshot_id,
     instruments_processed |-> Len(r.instruments_processed),
     instruments_failed |-> Len(r.errors),
     candle_counts |-> r.candle_counts,
     errors |-> r.errors]

\* the summary of the early return for a portfolio without positions
EmptySummary(r) ==
    [run_type |-> r.run_type,
     snapshot_id |-> r.snapshot_id,
     instruments_processed |-> 0,
     instruments_failed |-> 0,
     candle_counts |-> <<>>,
     errors |-> <<>>]

\* ------------------------------------------------------------------------
\* State
\* ------------------------------------------------------------------------
VARIABLES
    candles,      \* the candle table: a bag of candle rows
    instruments,  \* the instrument table: a set of instrument records
    snapshots,    \* the portfolio_snapshot table, in creation order
    driver,       \* how the driver reports a rejected upsert
    last,         \* the last direct repository call and what it returned
    pc,           \* position of run_data_pipeline
    run,          \* the locals of the current run_data_pipeline call
    world,        \* the responses the collaborators have given so far
    before,       \* the tables when the current run started
    runs,         \* number of run_data_pipeline calls made
    snapshotRuns, \* number of runs whose snapshot write returned a record
    reports,      \* the report table, in creation order
    recommendations,  \* the recommendation table, in creation order
    schema,       \* the definitions of the store, and the apply_schema calls
    session,      \* an Orchestrator used as a context manager, and the
                  \* API-client and database handles opened so far
    request,      \* the locals of the current EToroClient.request call
    api           \* the clock, and the catalog lookups made through one
                  \* EToroClient with the requests each one issued

vars == <<candles, instruments, snapshots, driver, last, pc, run, world,
          before, runs, snapshotRuns, reports, recommendations, schema,
          session, request, api>>

\* the tables the data pipeline and the candle, instrument and snapshot
\* repositories never touch
side == <<reports, recommendations, schema, session, request, api>>

NoCall == [op |-> "none"]
NoPortfolio == [positions |-> <<>>, credit |-> 0, unrealized_pnl |-> {}]
NoSummary == [run_type |-> "none"]
Tables == [candles |-> candles, instruments |-> instruments,
           snapshots |-> snapshots]

\* the locals of run_data_pipeline on entry
NewRun(run_type) ==
    [run_type |-> run_type,
     prev_done |-> FALSE,      \* entered right after a run that returned
     prev_rejected |-> FALSE,  \* ... in which the store refused a write
     portfolio |-> NoPortfolio,
     snapshot_id |-> 0,
     instrument_map |-> <<>>,
     idx |-> 1,
     instruments_processed |-> <<>>,
     candle_counts |-> <<>>,
     errors |-> <<>>,
     calls |-> <<>>,           \* collaborator and repository calls, in order
     rejected |-> {},          \* instruments whose upsert the store rejected
     insert_failed |-> {},     \* instruments whose candle insert failed
     raised |-> "none",
     summary |-> NoSummary]

Idle == pc \in {"idle", "done", "raised"}

\* no request was made yet
NoRequest ==
    [pc |-> "idle", max_retries |-> 0, backoff_base |-> 0, attempt |-> 0,
     outcomes |-> <<>>, sleeps |-> <<>>, raised |-> "none",
     response |-> NoResponse]

\* no Orchestrator exists; a handle that is None is written 0; applied
\* counts the apply_schema calls the Orchestrator made
NoOrchestrator ==
    [pc |-> "none", owns_client |-> FALSE, owns_db |-> FALSE,
     client |-> 0, db_ctx |-> 0, db |-> 0, exc |-> "none", applied |-> 0]

\* a fresh database
EmptyStore ==
    /\ candles = EmptyBag
    /\ instruments = {}
    /\ snapshots = <<>>
    /\ driver \in {"raise", "none"}
    /\ last = NoCall
    /\ pc = "idle"
    /\ run = NewRun("none")
    /\ world = <<>>
    /\ before = [candles |-> EmptyBag, instruments |-> {}, snapshots |-> <<>>]
    /\ runs = 0
    /\ snapshotRuns = 0
    /\ reports = <<>>
    /\ recommendations = <<>>
    /\ session = [orch |-> NoOrchestrator, handles |-> <<>>, sessions |-> 0]
    /\ request = NoRequest
    /\ api = [now |-> 0, calls |-> <<>>]

\* a fresh database with the schema applied (tests/conftest.py:38-48)
Init ==
    /\ EmptyStore
    /\ schema = [defs |-> apply_schema(NoDefs).defs, applied |-> 1]

\* a database on which apply_schema was never called
InitSchema ==
    /\ EmptyStore
    /\ driver = "raise"
    /\ schema \in {[defs |-> d, applied |-> 0] : d \in StartDefs}

\* ------------------------------------------------------------------------
\* Direct calls of the repositories
\* ------------------------------------------------------------------------
SameCandleCall(c, batch, target, fault) ==
    /\ c.op = "bulk_insert_candles"
    /\ c.candles = batch
    /\ c.instrument_etoro_id = target[1]
    /\ c.timeframe = target[2]
    /\ c.fault = fault

BulkInsertCandles ==
    /\ Idle
    /\ \E batch \in CandleBatches, target \in InsertTargets,
          fault \in StorageFaults :
         LET r == bulk_insert_candles(candles, batch, target[1], target[2],
                                      fault)
         IN /\ candles' = r.table
            /\ last' = [op |-> "bulk_insert_candles",
                        candles |-> batch,
                        instrument_etoro_id |-> target[1],
                        timeframe |-> target[2],
                        fault |-> fault,
                        before |-> candles,
                        result |-> r.result,
                        raised |-> r.raised,
                        repeat |-> SameCandleCall(last, batch, target, fault)]
    /\ pc' = "idle"
    /\ UNCHANGED side
    /\ UNCHANGED <<instruments, snapshots, driver, run, world, before, runs,
                   snapshotRuns>>

Names == {"n1"}

\* a direct upsert_instrument call with an exchange ID out of Exchanges
UpsertInstrumentFrom(Exchanges) ==
    /\ Idle
    /\ \E id \in InstrumentIds, sym \in Symbols, nm \in Names,
          ex \in Exchanges, omitted \in Omissions :
         LET inst == [instrument_id |-> id, symbol |-> sym, name |-> nm,
                      exchange_id |-> ex]
             u == upsert_instrument(instruments, inst, driver, omitted)
         IN /\ instruments' = u.table
            /\ last' = [op |-> "upsert_instrument",
                        instrument |-> inst,
                        omitted |-> omitted,
                        before |-> instruments,
                        result |-> u.result,
                        raised |-> u.raised]
    /\ pc' = "idle"
    /\ UNCHANGED side
    /\ UNCHANGED <<candles, snapshots, driver, run, world, before, runs,
                   snapshotRuns>>

\* called while seeding the store, before the pipeline runs of the session
UpsertInstrument ==
    /\ runs = 0
    /\ UpsertInstrumentFrom({{}})

UpsertAnyInstrument == UpsertInstrumentFrom(ExchangeIds)

GetInstrumentBySymbol ==
    /\ Idle
    /\ \E symbol \in Symbols, omitted \in Omissions :
         last' = [op |-> "get_instrument_by_symbol",
                  symbol |-> symbol,
                  omitted |-> omitted,
                  result |-> get_instrument_by_symbol(instruments, symbol,
                                                      omitted)]
    /\ UNCHANGED side
    /\ UNCHANGED <<candles, instruments, snapshots, driver, pc, run, world,
                   before, runs, snapshotRuns>>

GetInstrumentByEtoroId ==
    /\ Idle
    /\ \E etoro_id \in InstrumentIds, omitted \in Omissions :
         last' = [op |-> "get_instrument_by_etoro_id",
                  etoro_id |-> etoro_id,
                  omitted |-> omitted,
                  result |-> get_instrument_by_etoro_id(instruments, etoro_id,
                                                        omitted)]
    /\ UNCHANGED side
    /\ UNCHANGED <<candles, instruments, snapshots, driver, pc, run, world,
                   before, runs, snapshotRuns>>

ListInstruments ==
    /\ Idle
    /\ \E omitted \in Omissions :
         last' = [op |-> "list_instruments",
                  omitted |-> omitted,
                  result |-> list_instruments(instruments, omitted)]
    /\ UNCHANGED side
    /\ UNCHANGED <<candles, instruments, snapshots, driver, pc, run, world,
                   before, runs, snapshotRuns>>

\* normalise_response and first_or_none applied to one response of the
\* driver
NormaliseResponse ==
    /\ Idle
    /\ \E response \in Responses :
         last' = [op |-> "normalise_response",
                  response |-> response,
                  result |-> normalise_response(response),
                  first |-> first_or_none(response),
                  raised |-> "none"]
    /\ UNCHANGED side
    /\ UNCHANGED <<candles, instruments, snapshots, driver, pc, run, world,
                   before, runs, snapshotRuns>>

\* apply_schema called on the store
ApplySchema ==
    /\ Idle
    /\ schema.applied < MaxApplies
    /\ LET r == apply_schema(schema.defs) IN
       /\ schema' = [defs |-> r.defs, applied |-> schema.applied + 1]
       /\ last' = [op |-> "apply_schema",
                   before |-> [defs |-> schema.defs,
                               applied |-> schema.applied,
                               snapshots |-> snapshots],
                   raised |-> r.raised]
    /\ UNCHANGED api
    /\ UNCHANGED <<candles, instruments, snapshots, driver, pc, run, world,
                   before, runs, snapshotRuns, reports, recommendations,
                   session, request>>

\* create_snapshot called directly, the store answering in any shape
CreateSnapshotCall ==
    /\ Idle
    /\ Len(snapshots) < MaxSnapshots
    /\ \E portfolio \in Portfolios,
          run_type \in {rt \in RunTypeArgs : ValidRunType(rt)},
          outcome \in CreatedOutcomes \cup CreateFailures :
         LET r == create_snapshot(snapshots, portfolio, run_type, outcome) IN
         /\ snapshots' = r.table
         /\ last' = [op |-> "create_snapshot",
                     outcome |-> outcome,
                     before |-> snapshots,
                     result |-> r.result,
                     raised |-> r.raised]
    /\ UNCHANGED side
    /\ UNCHANGED <<candles, instruments, driver, pc, run, world, before, runs,
                   snapshotRuns>>

\* the report repository called directly
CreateReport ==
    /\ Idle
    /\ Len(reports) < MaxReports
    /\ \E run_id \in RunIds, snapshot_id \in IdStrings("portfolio_snapshot"),
          outcome \in ReportOutcomes :
         LET r == create_report(reports, run_id, "market_open", snapshot_id,
                                outcome) IN
         /\ reports' = r.table
         /\ last' = [op |-> "create_report",
                     ids |-> <<snapshot_id>>,
                     outcome |-> outcome,
                     before |-> <<reports, recommendations>>,
                     result |-> r.result,
                     raised |-> r.raised,
                     db_calls |-> r.db_calls]
    /\ UNCHANGED api
    /\ UNCHANGED <<candles, instruments, snapshots, driver, pc, run, world,
                   before, runs, snapshotRuns, recommendations, schema,
                   session, request>>

CreateRecommendation ==
    /\ Idle
    /\ Len(recommendations) < MaxRecommendations
    /\ \E report_id \in IdStrings("report"), instrument_etoro_id \in InstrumentIds,
          analysis_id \in AnalysisIdStrings, outcome \in ReportOutcomes :
         LET r == create_recommendation(recommendations, report_id,
                                        instrument_etoro_id, analysis_id,
                                        outcome) IN
         /\ recommendations' = r.table
         /\ last' = [op |-> "create_recommendation",
                     ids |-> <<report_id, analysis_id>>,
                     outcome |-> outcome,
                     before |-> <<reports, recommendations>>,
                     result |-> r.result,
                     raised |-> r.raised,
                     db_calls |-> r.db_calls]
    /\ UNCHANGED api
    /\ UNCHANGED <<candles, instruments, snapshots, driver, pc, run, world,
                   before, runs, snapshotRuns, reports, schema,
                   session, request>>

GetRecommendationsForReport ==
    /\ Idle
    /\ \E report_id \in IdStrings("report") :
         LET r == get_recommendations_for_report(recommendations, report_id) IN
         last' = [op |-> "get_recommendations_for_report",
                  ids |-> <<report_id>>,
                  outcome |-> "created",
                  before |-> <<reports, recommendations>>,
                  result |-> r.result,
                  raised |-> r.raised,
                  db_calls |-> r.db_calls]
    /\ UNCHANGED api
    /\ UNCHANGED <<candles, instruments, snapshots, driver, pc, run, world,
                   before, runs, snapshotRuns, reports, recommendations,
                   schema, session, request>>

\* ------------------------------------------------------------------------
\* `with Orchestrator(settings, client=..., db=...) as orch: body`
\* ------------------------------------------------------------------------
\* a handle a caller or the Orchestrator opens: its kind, whether the
\* Orchestrator opened it, and whether it is still open
OpenHandle(kind, owned) == [kind |-> kind, owned |-> owned, open |-> TRUE]
Closed(handles, h) ==
    [i \in DOMAIN handles |->
        IF i = h THEN [handles[i] EXCEPT !.open = FALSE] ELSE handles[i]]
ConnectOutcomes == {"ok", "ConnectionError"}
SchemaOutcomes == {"ok", "SchemaError"}
BodyOutcomes == {"none", "PipelineError"}

\* Orchestrator.__init__: a handle that is passed in was opened by the caller
Construct ==
    /\ session.orch.pc \in {"none", "ended"}
    /\ session.sessions < MaxSessions
    /\ \E pass_client \in BOOLEAN, pass_db \in BOOLEAN :
         LET h1 == IF pass_client
                   THEN Append(session.handles, OpenHandle("client", FALSE))
                   ELSE session.handles
             h2 == IF pass_db THEN Append(h1, OpenHandle("db", FALSE)) ELSE h1
         IN session' =
              [orch |-> [pc |-> "constructed",
                         owns_client |-> ~pass_client,
                         owns_db |-> ~pass_db,
                         client |-> IF pass_client THEN Len(h1) ELSE 0,
                         db_ctx |-> 0,
                         db |-> IF pass_db THEN Len(h2) ELSE 0,
                         exc |-> "none",
                         applied |-> 0],
               handles |-> h2,
               sessions |-> session.sessions + 1]
    /\ UNCHANGED api
    /\ UNCHANGED <<candles, instruments, snapshots, driver, last, pc, run,
                   world, before, runs, snapshotRuns, reports,
                   recommendations, schema, request>>

\* Orchestrator.__enter__.  When it raises, the with statement is over:
\* __exit__ is called only for a session that was entered.
Enter ==
    /\ session.orch.pc = "constructed"
    /\ \E connect \in ConnectOutcomes, applied \in SchemaOutcomes :
         LET o == session.orch
             h1 == IF o.owns_client
                   THEN Append(session.handles, OpenHandle("client", TRUE))
                   ELSE session.handles
             o1 == IF o.owns_client THEN [o EXCEPT !.client = Len(h1)] ELSE o
             h2 == IF o.owns_db /\ connect = "ok"
                   THEN Append(h1, OpenHandle("db", TRUE))
                   ELSE h1
             o2 == IF o.owns_db /\ connect = "ok"
                   THEN [o1 EXCEPT !.db_ctx = Len(h2), !.db = Len(h2)]
                   ELSE o1
             exc == IF ~o.owns_db THEN "none"
                    ELSE IF connect # "ok" THEN connect
                    ELSE IF applied # "ok" THEN applied
                    ELSE "none"
         IN /\ session' =
                 [session EXCEPT
                    !.orch = [o2 EXCEPT !.exc = exc,
                                        !.pc = IF exc = "none" THEN "entered"
                                               ELSE "ended",
                                        !.applied =
                                            IF o.owns_db /\ connect = "ok"
                                            THEN 1 ELSE 0],
                    !.handles = h2]
            /\ schema' = IF o.owns_db /\ exc = "none"
                         THEN [defs |-> apply_schema(schema.defs).defs,
                               applied |-> schema.applied + 1]
                         ELSE schema
    /\ UNCHANGED api
    /\ UNCHANGED <<candles, instruments, snapshots, driver, last, pc, run,
                   world, before, runs, snapshotRuns, reports,
                   recommendations, request>>

\* the body of the with statement returns or raises
Body ==
    /\ session.orch.pc = "entered"
    /\ \E exc \in BodyOutcomes :
         session' = [session EXCEPT !.orch.pc = "exiting", !.orch.exc = exc]
    /\ UNCHANGED api
    /\ UNCHANGED <<candles, instruments, snapshots, driver, last, pc, run,
                   world, before, runs, snapshotRuns, reports,
                   recommendations, schema, request>>

\* faulty variant: __exit__ closes the handles whoever opened them
ExitClosesAll ==
    /\ session.orch.pc = "exiting"
    /\ LET o == session.orch
           h1 == IF o.client # 0 THEN Closed(session.handles, o.client)
                 ELSE session.handles
           h2 == IF o.db # 0 THEN Closed(h1, o.db) ELSE h1
       IN session' =
            [session EXCEPT
               !.orch = [o EXCEPT !.pc = "ended", !.client = 0, !.db = 0,
                                  !.db_ctx = 0],
               !.handles = h2]
    /\ UNCHANGED api
    /\ UNCHANGED <<candles, instruments, snapshots, driver, last, pc, run,
                   world, before, runs, snapshotRuns, reports,
                   recommendations, schema, request>>

\* Orchestrator.__exit__; it returns None, so the exception of the body
\* goes on
Exit ==
    /\ session.orch.pc = "exiting"
    /\ LET o == session.orch
           closes_client == o.owns_client /\ o.client # 0
           closes_db == o.owns_db /\ o.db_ctx # 0
           h1 == IF closes_client THEN Closed(session.handles, o.client)
                 ELSE session.handles
           h2 == IF closes_db THEN Closed(h1, o.db_ctx) ELSE h1
       IN session' =
            [session EXCEPT
               !.orch = [o EXCEPT !.pc = "ended",
                                  !.client = IF closes_client THEN 0 ELSE @,
                                  !.db = IF closes_db THEN 0 ELSE @,
                                  !.db_ctx = IF closes_db THEN 0 ELSE @],
               !.handles = h2]
    /\ UNCHANGED api
    /\ UNCHANGED <<candles, instruments, snapshots, driver, last, pc, run,
                   world, before, runs, snapshotRuns, reports,
                   recommendations, schema, request>>

\* ------------------------------------------------------------------------
\* EToroClient.request, attempt by attempt
\* ------------------------------------------------------------------------
StartRequest ==
    /\ request.pc \in {"idle", "returned", "raised"}
    /\ \E max_retries \in RetrySettings, backoff_base \in BackoffBases :
         request' = [NoRequest EXCEPT !.pc = "running",
                                      !.max_retries = max_retries,
                                      !.backoff_base = backoff_base,
                                      !.attempt = 1]
    /\ UNCHANGED api
    /\ UNCHANGED <<candles, instruments, snapshots, driver, last, pc, run,
                   world, before, runs, snapshotRuns, reports,
                   recommendations, schema, session>>

\* one pass of the loop: the HTTP call, then raise, return, or sleep and go on
Attempt ==
    /\ request.pc = "running"
    /\ request.attempt <= request.max_retries
    /\ \E outcome \in ServerOutcomes :
         LET res == AttemptResult(outcome, request.attempt, request.max_retries)
             seen == Append(request.outcomes, outcome)
         IN request' =
              IF res = "retry"
              THEN [request EXCEPT
                      !.outcomes = seen,
                      !.sleeps = Append(@, _sleep_backoff(request.backoff_base,
                                                          request.attempt)),
                      !.attempt = @ + 1]
              ELSE IF res = "return"
              THEN [request EXCEPT !.outcomes = seen, !.pc = "returned",
                                   !.response = outcome]
              ELSE [request EXCEPT !.outcomes = seen, !.pc = "raised",
                                   !.raised = res]
    /\ UNCHANGED api
    /\ UNCHANGED <<candles, instruments, snapshots, driver, last, pc, run,
                   world, before, runs, snapshotRuns, reports,
                   recommendations, schema, session>>

\* the loop ran out of attempts without returning or raising (line 119)
Exhausted ==
    /\ request.pc = "running"
    /\ request.attempt > request.max_retries
    /\ request' = [request EXCEPT !.pc = "raised",
                                  !.raised = "EToroRequestError"]
    /\ UNCHANGED api
    /\ UNCHANGED <<candles, instruments, snapshots, driver, last, pc, run,
                   world, before, runs, snapshotRuns, reports,
                   recommendations, schema, session>>

\* ------------------------------------------------------------------------
\* Catalog lookups through one EToroClient
\* ------------------------------------------------------------------------
\* one call made on the client: when it was made, the requests it sent to
\* /market-data/instruments, and how it ended
Lookup(op, r) ==
    [op |-> op, at |-> api.now, requests |-> r.requests, raised |-> r.raised,
     result |-> r.result]

SearchInstruments ==
    /\ Len(api.calls) < MaxLookups
    /\ \E response \in CatalogResponses, query \in Queries,
          page_size \in PageSizes, page_number \in PageNumbers :
         api' = [api EXCEPT !.calls =
                   Append(@, Lookup("search_instruments",
                                    search_instruments(response, query,
                                                       page_size,
                                                       page_number)))]
    /\ UNCHANGED <<candles, instruments, snapshots, driver, last, pc, run,
                   world, before, runs, snapshotRuns, reports,
                   recommendations, schema, session, request>>

ApiGetInstrumentBySymbol ==
    /\ Len(api.calls) < MaxLookups
    /\ \E response \in CatalogResponses, symbol \in Queries :
         api' = [api EXCEPT !.calls =
                   Append(@, Lookup("get_instrument_by_symbol",
                                    api_get_instrument_by_symbol(response,
                                                                 symbol)))]
    /\ UNCHANGED <<candles, instruments, snapshots, driver, last, pc, run,
                   world, before, runs, snapshotRuns, reports,
                   recommendations, schema, session, request>>

\* client.clear_cache(): EToroClient has no such attribute
ClearCache ==
    /\ Len(api.calls) < MaxLookups
    /\ api' = [api EXCEPT !.calls =
                 Append(@, Lookup("clear_cache",
                                  [requests |-> 0, raised |-> "AttributeError",
                                   result |-> <<>>]))]
    /\ UNCHANGED <<candles, instruments, snapshots, driver, last, pc, run,
                   world, before, runs, snapshotRuns, reports,
                   recommendations, schema, session, request>>

\* time passes between two calls
Tick ==
    /\ api.now < MaxTime
    /\ api' = [api EXCEPT !.now = @ + 1]
    /\ UNCHANGED <<candles, instruments, snapshots, driver, last, pc, run,
                   world, before, runs, snapshotRuns, reports,
                   recommendations, schema, session, request>>

\* ------------------------------------------------------------------------
\* Orchestrator.run_data_pipeline, stage by stage
\* ------------------------------------------------------------------------
\* the response a collaborator gives: the collaborators answer a question
\* asked again as they answered it before, and a new question in any way
Pick(key, S) ==
    IF key \in DOMAIN world THEN {world[key]} ELSE S

Given(key, value) == (key :> value) @@ world

Unused == [outcome |-> "unused"]

Rejections(r) == r.rejected # {} \/ r.insert_failed # {}

\* entry: validation of run_type
StartRun ==
    /\ Idle
    /\ runs < MaxRuns
    /\ \E run_type \in RunTypeArgs :
         /\ LET r == [NewRun(run_type) EXCEPT
                        !.prev_done = (pc = "done"),
                        !.prev_rejected = Rejections(run)]
            IN IF ValidRunType(run_type)
               THEN /\ run' = r
                    /\ pc' = "fetch_portfolio"
               ELSE /\ run' = [r EXCEPT !.raised = "ValueError"]
                    /\ pc' = "raised"
    /\ runs' = runs + 1
    /\ before' = Tables
    /\ last' = NoCall
    /\ UNCHANGED side
    /\ UNCHANGED <<candles, instruments, snapshots, driver, world,
                   snapshotRuns>>

\* faulty variant: a failed portfolio fetch is tried a second time
FetchPortfolioRetriesOnce ==
    /\ pc = "fetch_portfolio"
    /\ \E o \in Pick(<<"portfolio", 0>>, PortfolioOutcomes) :
         LET exc == PortfolioFetchRaises(o)
             failed == o.outcome # "ok"
             again == failed /\ run.calls = <<>>
         IN /\ run' = [run EXCEPT
                         !.calls = Append(@, Event("get_portfolio", 0,
                                     IF failed THEN o.outcome ELSE "none")),
                         !.portfolio = IF failed THEN @ ELSE o.portfolio,
                         !.raised = IF again THEN "none" ELSE exc]
            /\ pc' = IF again THEN "fetch_portfolio"
                     ELSE IF exc = "none"
                     THEN NextStage("fetch_portfolio", FALSE)
                     ELSE "raised"
            /\ world' = Given(<<"portfolio", 0>>, o)
    /\ UNCHANGED side
    /\ UNCHANGED <<candles, instruments, snapshots, driver, last, before,
                   runs, snapshotRuns>>

\* step 2: get_portfolio
FetchPortfolio ==
    /\ pc = "fetch_portfolio"
    /\ \E o \in Pick(<<"portfolio", 0>>, PortfolioOutcomes) :
         LET exc == PortfolioFetchRaises(o)
             failed == o.outcome # "ok"
         IN /\ run' = [run EXCEPT
                         !.calls = Append(@, Event("get_portfolio", 0,
                                     IF failed THEN o.outcome ELSE "none")),
                         !.portfolio = IF failed THEN @ ELSE o.portfolio,
                         !.raised = exc]
            /\ pc' = IF exc = "none"
                     THEN NextStage("fetch_portfolio", FALSE)
                     ELSE "raised"
            /\ world' = Given(<<"portfolio", 0>>, o)
    /\ UNCHANGED side
    /\ UNCHANGED <<candles, instruments, snapshots, driver, last, before,
                   runs, snapshotRuns>>

\* create_snapshot, the extraction of the instrument IDs and the early return
CreateSnapshot ==
    /\ pc = "create_snapshot"
    /\ \E o \in Pick(<<"snapshot", 0>>, SnapshotOutcomes) :
         LET c == create_snapshot(snapshots, run.portfolio, run.run_type, o)
             instrument_ids == InstrumentIdsOf(run.portfolio)
             next == NextStage("create_snapshot", EarlyReturn(instrument_ids))
             r == [run EXCEPT
                     !.calls = Append(@, Event("create_snapshot", 0,
                                               c.raised)),
                     !.raised = c.raised,
                     !.snapshot_id = IF c.raised = "none"
                                     THEN c.result.v.id ELSE @]
         IN /\ snapshots' = c.table
            /\ snapshotRuns' = IF c.raised = "none"
                               THEN snapshotRuns + 1 ELSE snapshotRuns
            /\ IF c.raised # "none"
               THEN /\ run' = r
                    /\ pc' = "raised"
               ELSE /\ run' = IF next # "done" THEN r
                              ELSE IF instrument_ids = <<>>
                              THEN [r EXCEPT !.summary = EmptySummary(r)]
                              ELSE [r EXCEPT !.summary = Summarise(r)]
                    /\ pc' = next
            /\ world' = Given(<<"snapshot", 0>>, o)
    /\ UNCHANGED side
    /\ UNCHANGED <<candles, instruments, driver, last, before, runs>>

\* step 3, first half: _resolve_instruments
ResolveInstruments ==
    /\ pc = "resolve_instruments"
    /\ \E o \in Pick(<<"catalog", 0>>, CatalogOutcomes) :
         LET m == _resolve_instruments(InstrumentIdsOf(run.portfolio), o)
         IN /\ run' = [run EXCEPT
                         !.calls = Append(@, Event("get_instruments", 0,
                                     IF o.outcome = "ok" THEN "none"
                                     ELSE o.outcome)),
                         !.instrument_map = m.map,
                         !.raised = m.raised]
            /\ pc' = IF m.raised = "none"
                     THEN NextStage("resolve_instruments", FALSE)
                     ELSE "raised"
            /\ world' = Given(<<"catalog", 0>>, o)
    /\ UNCHANGED side
    /\ UNCHANGED <<candles, instruments, snapshots, driver, last, before,
                   runs, snapshotRuns>>

\* step 3, second half: one iteration of `for iid in instrument_ids`, and
\* after the last one the summary
ProcessInstrument ==
    /\ pc = "process_instruments"
    /\ LET instrument_ids == InstrumentIdsOf(run.portfolio)
           iid == instrument_ids[run.idx]
           upsertRaises ==
               /\ iid \in DOMAIN run.instrument_map
               /\ upsert_instrument(instruments, run.instrument_map[iid],
                                    driver, _OPTIONAL_FIELDS).raised # "none"
       IN
       /\ run.idx <= Len(instrument_ids)
       /\ \E cand \in (IF upsertRaises THEN {Unused}
                       ELSE Pick(<<"candles", iid>>, CandleOutcomes)) :
          \E fault \in (IF cand.outcome # "ok" \/ Len(cand.candles) = 0
                        THEN {"none"}
                        ELSE StorageFaults) :
            LET p == process_instrument(iid, run.instrument_map, instruments,
                                        candles, driver, cand, fault)
                isLast == run.idx = Len(instrument_ids)
                next == NextStage("process_instruments", FALSE)
                r == [run EXCEPT
                        !.calls = @ \o p.events,
                        !.idx = @ + 1,
                        !.errors =
                            IF p.error # "none"
                            THEN Append(@, [instrument_id |-> iid,
                                            error |-> p.error])
                            ELSE @,
                        !.instruments_processed =
                            IF p.error = "none" THEN Append(@, iid) ELSE @,
                        !.candle_counts =
                            IF p.error = "none"
                            THEN (iid :> p.inserted) @@ @ ELSE @,
                        !.rejected =
                            IF /\ iid \in DOMAIN run.instrument_map
                               /\ p.instruments = instruments
                               /\ UpsertViolation(instruments, iid,
                                    _instrument_to_record(
                                        run.instrument_map[iid]))
                            THEN @ \cup {iid} ELSE @,
                        !.insert_failed =
                            IF fault # "none" THEN @ \cup {iid} ELSE @,
                        !.raised = p.escaped]
            IN /\ instruments' = p.instruments
               /\ candles' = p.candles
               /\ IF p.escaped # "none"
                  THEN /\ run' = r
                       /\ pc' = "raised"
                  ELSE IF isLast
                  THEN /\ run' = IF next = "done"
                                 THEN [r EXCEPT !.summary = Summarise(r)]
                                 ELSE r
                       /\ pc' = next
                  ELSE /\ run' = r
                       /\ pc' = "process_instruments"
               /\ world' = IF cand = Unused THEN world
                           ELSE Given(<<"candles", iid>>, cand)
    /\ UNCHANGED side
    /\ UNCHANGED <<snapshots, driver, last, before, runs, snapshotRuns>>

\* ------------------------------------------------------------------------
\* Specifications
\* ------------------------------------------------------------------------
Next ==
    \/ StartRun
    \/ FetchPortfolio
    \/ CreateSnapshot
    \/ ResolveInstruments
    \/ ProcessInstrument
    \/ UpsertInstrument

Spec == Init /\ [][Next]_vars

\* pipeline runs on a store nothing else writes to
NextPipeline ==
    \/ StartRun
    \/ FetchPortfolio
    \/ CreateSnapshot
    \/ ResolveInstruments
    \/ ProcessInstrument
SpecPipeline == Init /\ [][NextPipeline]_vars

\* a collaborator or storage call returns or raises: a run that has started
\* takes its next step.  The last conjunct is weak fairness of
\* ProcessInstrument written out: that action is enabled exactly when
\* pc = "process_instruments", and it is the only step from such a state.
SpecPipelineLive ==
    /\ SpecPipeline
    /\ WF_vars(FetchPortfolio)
    /\ WF_vars(CreateSnapshot)
    /\ WF_vars(ResolveInstruments)
    /\ \/ []<>(pc # "process_instruments")
       \/ []<><<pc = "process_instruments">>_vars

\* the candle repository called directly on a fresh store
InitCandles == Init /\ driver = "raise"
NextCandles == BulkInsertCandles
SpecCandles == InitCandles /\ [][NextCandles]_vars

\* the instrument repository called directly on a fresh store
NextInstruments ==
    \/ UpsertAnyInstrument
    \/ GetInstrumentBySymbol
    \/ GetInstrumentByEtoroId
    \/ ListInstruments
SpecInstruments == Init /\ [][NextInstruments]_vars

\* the response normaliser applied to the responses of a store
NextNormalise == NormaliseResponse
SpecNormalise == InitCandles /\ [][NextNormalise]_vars

\* the schema applied, again and again, to a store that is being written
NextSchema ==
    \/ ApplySchema
    \/ CreateSnapshotCall
SpecSchema == InitSchema /\ [][NextSchema]_vars

\* Orchestrators used as context managers, one after the other
NextSession ==
    \/ Construct
    \/ Enter
    \/ Body
    \/ Exit
SpecSession == InitCandles /\ [][NextSession]_vars

\* requests of an EToroClient, one after the other
NextClient ==
    \/ StartRequest
    \/ Attempt
    \/ Exhausted
SpecClient == InitCandles /\ [][NextClient]_vars

\* an HTTP call ends (it has a timeout) and so does a sleep: a request that
\* is running takes its next step
SpecClientLive ==
    SpecClient /\ WF_vars(Attempt) /\ WF_vars(Exhausted)

\* the snapshot repository called directly on a fresh store
NextSnapshots == CreateSnapshotCall
SpecSnapshots == Init /\ [][NextSnapshots]_vars

\* the report and recommendation repository called directly on a fresh store
NextReports ==
    \/ CreateReport
    \/ CreateRecommendation
    \/ GetRecommendationsForReport
SpecReports == InitCandles /\ [][NextReports]_vars

\* catalog lookups made through one client, time passing in between
NextLookups ==
    \/ SearchInstruments
    \/ ApiGetInstrumentBySymbol
    \/ ClearCache
    \/ Tick
SpecLookups == InitCandles /\ [][NextLookups]_vars

\* ------------------------------------------------------------------------
\* Properties
\* ------------------------------------------------------------------------
RowsOf(c) == [i \in 1..Len(c.candles) |->
                CandleRow(c.candles[i], c.instrument_etoro_id, c.timeframe)]
KeysOf(table) == {CandleKey(r) : r \in BagToSet(table)}
CopiesWithKey(table, key) ==
    BagCardinality([r \in {x \in BagToSet(table) : CandleKey(x) = key} |->
                      table[r]])
CleanInsert == last.op = "bulk_insert_candles" /\ last.fault = "none"

\* a candle of the batch is new when its key is held neither by the table
\* before the call nor by an earlier candle of the same batch
NewInBatch(c, i) ==
    LET rows == RowsOf(c) IN
    /\ CandleKey(rows[i]) \notin KeysOf(c.before)
    /\ \A j \in 1..(i - 1) : CandleKey(rows[j]) # CandleKey(rows[i])

EventsAt(ops) == {k \in 1..Len(run.calls) : run.calls[k].op \in ops}
InstrumentEvents == {k \in 1..Len(run.calls) : run.calls[k].id # 0}
Downstream == {"get_instruments", "upsert_instrument", "get_candles",
               "bulk_insert_candles"}
SnapshotWritten ==
    \E k \in 1..Len(run.calls) :
        run.calls[k].op = "create_snapshot" /\ run.calls[k].exc = "none"
PortfolioFetchFailed ==
    /\ Len(run.calls) > 0
    /\ run.calls[1].op = "get_portfolio"
    /\ run.calls[1].exc # "none"
OneMoreSnapshot ==
    /\ Len(snapshots) = Len(before.snapshots) + 1
    /\ SubSeq(snapshots, 1, Len(before.snapshots)) = before.snapshots

C2_SecondInsertIsNoOp ==
    (CleanInsert /\ last.repeat) =>
        /\ count_candles(candles, last.instrument_etoro_id, last.timeframe)
             = count_candles(last.before, last.instrument_etoro_id,
                             last.timeframe)
        /\ candles = last.before
        /\ last.result = <<>>
        /\ last.raised = "none"
        /\ \A i \in 1..Len(last.candles) :
             CopiesWithKey(candles, CandleKey(RowsOf(last)[i])) = 1

C2_Witness ==
    /\ CleanInsert /\ last.repeat
    /\ Len(last.candles) = 2
    /\ count_candles(candles, last.instrument_etoro_id, last.timeframe) = 2

\* C3: the candle table never holds two candles with the same
\* (instrument, timeframe, timestamp).
C3_CandleKeysUnique ==
    \A r \in BagToSet(candles) : CopiesWithKey(candles, CandleKey(r)) = 1

C3_Witness ==
    /\ pc = "done" /\ run.prev_done
    /\ <<"candles", 1>> \in DOMAIN world
    /\ world[<<"candles", 1>>].outcome = "ok"
    /\ Len(world[<<"candles", 1>>].candles) = 2
    /\ world[<<"candles", 1>>].candles[1].timestamp
         = world[<<"candles", 1>>].candles[2].timestamp
    /\ 1 \in DOMAIN run.candle_counts
    /\ run.candle_counts[1] = 0
    /\ CopiesWithKey(candles, <<1, "1d", 1>>) = 1

\* C4: for a batch of which some candles conflict with stored candles and
\* others do not, bulk_insert_candles raises nothing, stores every candle
\* that is new, and returns exactly the records it stored in this call, one
\* per new candle in batch order and none for a skipped duplicate.
C4_MixedBatch ==
    CleanInsert =>
        LET rows == RowsOf(last)
            new == {i \in 1..Len(rows) : NewInBatch(last, i)}
        IN /\ last.raised = "none"
           /\ \A i \in new : CopiesIn(rows[i], candles) = 1
           /\ Len(last.result) = Cardinality(new)
           /\ \A k \in 1..Len(last.result) :
                \E i \in new :
                    /\ last.result[k] = PyDict(rows[i])
                    /\ Cardinality({j \in new : j < i}) = k - 1
           /\ candles = last.before (+)
                SetToBag({rows[i] : i \in new})

C4_Witness ==
    /\ CleanInsert
    /\ Len(last.candles) = 2
    /\ CandleKey(RowsOf(last)[1]) \in KeysOf(last.before)
    /\ NewInBatch(last, 2)
    /\ Len(last.result) = 1

\* C5: an exception raised while upserting an instrument's metadata, fetching
\* its candles or inserting them never leaves the run: the run records
\* exactly one error {instrument_id, error} for that instrument, goes on with
\* the remaining instruments in ascending order and returns a summary.
C5_InstrumentFailureIsolated ==
    LET ids == InstrumentIdsOf(run.portfolio)
        failedIds == {run.calls[k].id :
                        k \in {j \in InstrumentEvents :
                                 run.calls[j].exc # "none"}}
    IN /\ run.raised # "none" => InstrumentEvents = {}
       /\ \A iid \in InstrumentIds :
            Cardinality({k \in 1..Len(run.errors) :
                           run.errors[k].instrument_id = iid})
              = IF iid \in failedIds THEN 1 ELSE 0
       /\ \A k \in InstrumentEvents :
            run.calls[k].exc # "none" =>
                \E e \in 1..Len(run.errors) :
                    run.errors[e] = [instrument_id |-> run.calls[k].id,
                                     error |-> run.calls[k].exc]
       /\ \A a, b \in InstrumentEvents :
            a < b => run.calls[a].id <= run.calls[b].id
       /\ (pc = "done" /\ ids # <<>>) =>
            /\ \A i \in 1..Len(ids) :
                 \E k \in InstrumentEvents : run.calls[k].id = ids[i]
            /\ run.summary = Summarise(run)
            /\ run.summary.instruments_failed = Cardinality(failedIds)

C5_Witness ==
    /\ pc = "done"
    /\ Len(run.errors) = 1
    /\ run.errors[1].instrument_id = 1
    /\ run.instruments_processed = <<2>>
    /\ run.summary.instruments_failed = 1

\* C6: if the portfolio fetch of a run fails, the run makes no further call
\* and writes nothing: the tables are as they were when the run started.
C6_FailedFetchWritesNothing ==
    PortfolioFetchFailed =>
        /\ pc = "raised"
        /\ Len(run.calls) = 1
        /\ Tables = before
        /\ run.snapshot_id = 0

C6_Witness ==
    /\ PortfolioFetchFailed
    /\ run.raised = "PipelineError"
    /\ instruments # {}

\* C7: every fatal failure of a run that passed run-type validation - the
\* portfolio fetch failing for any reason, or the snapshot write returning no
\* record - reaches the caller as a PipelineError.
C7_FatalIsPipelineError ==
    (/\ pc = "raised"
     /\ Len(run.calls) > 0
     /\ run.calls[Len(run.calls)].op \in {"get_portfolio", "create_snapshot"})
        => run.raised = "PipelineError"

\* C8: a run_type other than exactly "market_open" or "market_close" makes
\* run_data_pipeline raise before any request or storage operation.
C8_InvalidRunTypeRejectedFirst ==
    (run.run_type \notin {"market_open", "market_close", "none"}) =>
        /\ pc = "raised"
        /\ run.raised = "ValueError"
        /\ run.calls = <<>>
        /\ Tables = before

C8_Witness ==
    /\ run.run_type = "Market_Open"
    /\ pc = "raised"
    /\ instruments # {}

\* C9: in a run whose portfolio fetch succeeds the snapshot write completes
\* before the catalog request, any instrument upsert and any candle request,
\* and the snapshot stays stored whatever fails afterwards in the run.
C9_SnapshotFirst ==
    EventsAt(Downstream) # {} =>
        /\ \E j \in EventsAt({"create_snapshot"}) :
             /\ run.calls[j].exc = "none"
             /\ \A k \in EventsAt(Downstream) : j < k
        /\ run.snapshot_id \in 1..Len(snapshots)
        /\ snapshots[run.snapshot_id] =
             [id |-> run.snapshot_id]
               @@ _portfolio_to_record(run.portfolio, run.run_type)

C9_Witness ==
    /\ pc = "raised"
    /\ run.raised = "ValidationError"
    /\ EventsAt({"get_instruments"}) # {}
    /\ Len(snapshots) = 2

\* C10: the number of stored snapshots is the number of runs that got past
\* the snapshot write: such a run adds exactly one snapshot, a run that fails
\* earlier adds none, and no run changes or removes an earlier snapshot.
C10_OneSnapshotPerRun ==
    /\ Len(snapshots) = snapshotRuns
    /\ Len(snapshots) = Len(before.snapshots)
                          + (IF SnapshotWritten THEN 1 ELSE 0)
    /\ SubSeq(snapshots, 1, Len(before.snapshots)) = before.snapshots
    /\ \A i \in 1..Len(snapshots) : snapshots[i].id = i

C10_Witness ==
    /\ runs = 2
    /\ pc = "raised"
    /\ ~SnapshotWritten
    /\ Len(snapshots) = 1

\* C11: a failed catalog resolution - a request error, an auth error or a
\* catalog response that cannot be parsed - never aborts the run: the run goes
\* on with an empty metadata map, upserts no instrument, fetches candles for
\* every instrument of the portfolio and returns a summary.
C11_CatalogFailureNonFatal ==
    LET ids == InstrumentIdsOf(run.portfolio) IN
    (\E k \in EventsAt({"get_instruments"}) : run.calls[k].exc # "none") =>
        /\ pc # "raised"
        /\ run.instrument_map = <<>>
        /\ EventsAt({"upsert_instrument"}) = {}
        /\ pc = "done" =>
             /\ \A i \in 1..Len(ids) :
                  \E k \in EventsAt({"get_candles"}) :
                      run.calls[k].id = ids[i]
             /\ run.summary = Summarise(run)

\* C12: a run whose fetched portfolio has no open positions stores one
\* snapshot with open_positions = 0, makes no catalog request and no candle
\* request, writes no instrument and no candle, and returns a summary with
\* instruments_processed = 0, instruments_failed = 0, an empty candle_counts
\* map and an empty errors list.
C12_EmptyPortfolio ==
    (SnapshotWritten /\ run.portfolio.positions = <<>>) =>
        /\ pc = "done"
        /\ OneMoreSnapshot
        /\ snapshots[Len(snapshots)].open_positions = 0
        /\ snapshots[Len(snapshots)].id = run.snapshot_id
        /\ EventsAt(Downstream) = {}
        /\ Len(run.calls) = 2
        /\ candles = before.candles
        /\ instruments = before.instruments
        /\ run.summary = [run_type |-> run.run_type,
                          snapshot_id |-> run.snapshot_id,
                          instruments_processed |-> 0,
                          instruments_failed |-> 0,
                          candle_counts |-> <<>>,
                          errors |-> <<>>]

C12_Witness ==
    /\ pc = "done"
    /\ run.portfolio.positions = <<>>
    /\ run.summary.instruments_processed = 0
    /\ instruments # {}
    /\ Len(snapshots) = 2

\* the distinct instrument IDs the open positions of the run reference
PositionIds == {run.portfolio.positions[i] :
                  i \in 1..Len(run.portfolio.positions)}
\* how many times the run handled instrument iid to the end, well or badly
TimesHandled(iid) ==
    Cardinality({k \in 1..Len(run.instruments_processed) :
                   run.instruments_processed[k] = iid})
    + Cardinality({k \in 1..Len(run.errors) :
                     run.errors[k].instrument_id = iid})
CallsFor(op, iid) ==
    {k \in 1..Len(run.calls) :
       run.calls[k].op = op /\ run.calls[k].id = iid}

\* C13: in every run each distinct instrument ID of the open positions is
\* processed exactly once, however many positions reference it - at most one
\* metadata upsert and one candle fetch for it - and the instruments are
\* processed in strictly ascending ID order, one after the other.
C13_EachInstrumentOnceInOrder ==
    /\ \A k \in InstrumentEvents : run.calls[k].id \in PositionIds
    /\ \A iid \in InstrumentIds :
         /\ Cardinality(CallsFor("upsert_instrument", iid)) <= 1
         /\ Cardinality(CallsFor("get_candles", iid)) <= 1
         /\ Cardinality(CallsFor("bulk_insert_candles", iid)) <= 1
         /\ TimesHandled(iid) <= 1
    /\ \A a, b \in InstrumentEvents :
         a < b => run.calls[a].id <= run.calls[b].id
    /\ \A a, b \in 1..Len(run.instruments_processed) :
         a < b => run.instruments_processed[a] < run.instruments_processed[b]
    /\ \A a, b \in 1..Len(run.errors) :
         a < b => run.errors[a].instrument_id < run.errors[b].instrument_id
    /\ (pc = "done" /\ PositionIds # {}) =>
         \A iid \in PositionIds : TimesHandled(iid) = 1

C13_Witness ==
    /\ pc = "done"
    /\ run.portfolio.positions = <<2, 1, 2>>
    /\ run.instruments_processed = <<1, 2>>
    /\ Cardinality(CallsFor("get_candles", 2)) = 1
    /\ Cardinality(CallsFor("upsert_instrument", 2)) = 1

\* C14: in every summary returned by run_data_pipeline,
\* instruments_processed + instruments_failed is the number of distinct
\* instrument IDs of the portfolio, instruments_failed is the length of
\* errors, every error record names an instrument that failed, the keys of
\* candle_counts are exactly the processed instruments, and no instrument is
\* both a key of candle_counts and named in errors.
C14_SummaryConsistent ==
    pc = "done" =>
        LET sm == run.summary
            errIds == {sm.errors[k].instrument_id : k \in 1..Len(sm.errors)}
            processed == {run.instruments_processed[k] :
                            k \in 1..Len(run.instruments_processed)}
        IN /\ sm.instruments_processed + sm.instruments_failed
                = Cardinality(PositionIds)
           /\ sm.instruments_failed = Len(sm.errors)
           /\ errIds \subseteq PositionIds
           /\ \A iid \in errIds :
                \E k \in InstrumentEvents :
                    run.calls[k].id = iid /\ run.calls[k].exc # "none"
           /\ DOMAIN sm.candle_counts = processed
           /\ Cardinality(DOMAIN sm.candle_counts) = sm.instruments_processed
           /\ DOMAIN sm.candle_counts \cap errIds = {}

C14_Witness ==
    /\ pc = "done"
    /\ run.summary.instruments_processed = 1
    /\ run.summary.instruments_failed = 1
    /\ run.summary.errors[1].instrument_id = 2
    /\ DOMAIN run.summary.candle_counts = {1}
    /\ run.summary.candle_counts[1] = 2

\* C15: for every processed instrument, candle_counts[id] is the number of
\* candle records the run newly added to storage for (id, "1d"): count_candles
\* after the run minus count_candles before it; a run that receives only
\* candles already stored reports 0.
C15_CandleCountsAreNewCandles ==
    /\ \A iid \in DOMAIN run.candle_counts :
         run.candle_counts[iid]
           = count_candles(candles, iid, "1d")
               - count_candles(before.candles, iid, "1d")
    /\ (pc = "done" /\ PositionIds # {}) =>
         run.summary.candle_counts = run.candle_counts

C15_Witness ==
    /\ pc = "done" /\ run.prev_done
    /\ run.insert_failed = {}
    /\ DOMAIN run.summary.candle_counts = {1, 2}
    /\ run.summary.candle_counts[1] = 0
    /\ run.summary.candle_counts[2] = 0
    /\ count_candles(candles, 1, "1d") = 2
    /\ count_candles(candles, 2, "1d") = 1

\* C16: whenever the storage insert of an instrument's candles fails - by
\* raising, or by the store answering with an error result that is not a
\* duplicate-key conflict - the instrument is named in the errors list and is
\* counted neither in instruments_processed nor in candle_counts.
C16_FailedInsertIsAnError ==
    \A iid \in run.insert_failed :
        /\ \E k \in 1..Len(run.errors) : run.errors[k].instrument_id = iid
        /\ \A k \in 1..Len(run.instruments_processed) :
             run.instruments_processed[k] # iid
        /\ iid \notin DOMAIN run.candle_counts

\* the last direct call was upsert_instrument
Upserted == last.op = "upsert_instrument"
\* the record the last upsert_instrument call asked the store to hold
UpsertedRecord ==
    [id |-> last.instrument.instrument_id]
      @@ _instrument_to_record(last.instrument)
\* the store refused the last upsert: its symbol is held by another record
UpsertRefused ==
    UpsertViolation(last.before, last.instrument.instrument_id,
                    _instrument_to_record(last.instrument))
OthersUntouched ==
    {r \in instruments : r.id # last.instrument.instrument_id}
      = {r \in last.before : r.id # last.instrument.instrument_id}

\* C17 (as stated): after every upsert_instrument call the store holds exactly
\* one record for the external ID of the call, carrying the fields of that
\* call and nothing of an earlier upsert; the records of the other IDs are
\* as the earlier calls left them.
C17_LastWriteWins ==
    Upserted =>
        /\ {r \in instruments :
              r.etoro_id = last.instrument.instrument_id} = {UpsertedRecord}
        /\ OthersUntouched

\* C17 (amended): the same for every upsert the store accepts; an upsert
\* whose symbol another instrument holds is refused and leaves the store as
\* it was.
C17_LastAcceptedWriteWins ==
    Upserted =>
        /\ ~UpsertRefused =>
             {r \in instruments :
                r.etoro_id = last.instrument.instrument_id} = {UpsertedRecord}
        /\ UpsertRefused => instruments = last.before
        /\ OthersUntouched

C17_Witness ==
    /\ Upserted /\ ~UpsertRefused
    /\ \E r \in last.before :
         /\ r.id = last.instrument.instrument_id
         /\ r.symbol # last.instrument.symbol
         /\ r.exchange # UpsertedRecord.exchange
    /\ instruments = {UpsertedRecord}

\* C18: no two stored instruments share a symbol, and no two share an
\* external ID.
C18_InstrumentsUnique ==
    /\ \A a, b \in instruments :
         a # b => /\ a.symbol # b.symbol
                  /\ a.etoro_id # b.etoro_id
                  /\ a.id # b.id
    /\ \A a \in instruments : a.id = a.etoro_id

C18_Witness ==
    /\ pc = "done"
    /\ run.rejected = {1}
    /\ 1 \in DOMAIN run.instrument_map
    /\ \E r \in instruments :
         r.id = 2 /\ r.symbol = run.instrument_map[1].symbol
    /\ \A r \in instruments : r.id # 1

\* a returned record carries every optional field
HasOptionalFields(record) ==
    /\ record.t = "dict"
    /\ _OPTIONAL_FIELDS \subseteq DOMAIN record.v
    /\ record.v["industry"] = {}
    /\ record.v["metadata"] = {}
\* ... and the exchange of the stored record it was read from
ReadOf(record, table) ==
    /\ HasOptionalFields(record)
    /\ \E r \in table : /\ r.id = record.v["id"]
                         /\ r.symbol = record.v["symbol"]
                         /\ r.exchange = record.v["exchange"]

\* C19: every record returned by upsert_instrument, get_instrument_by_symbol
\* and get_instrument_by_etoro_id, and every element returned by
\* list_instruments, carries the keys exchange, industry and metadata - with
\* a null value when the instrument has none - whichever of them the driver
\* response left out.
C19_OptionalFieldsPresent ==
    /\ (Upserted /\ last.raised = "none") =>
         /\ HasOptionalFields(last.result)
         /\ last.result.v["exchange"] = UpsertedRecord.exchange
    /\ (/\ last.op \in {"get_instrument_by_symbol",
                         "get_instrument_by_etoro_id"}
        /\ last.result # PyNone) => ReadOf(last.result, instruments)
    /\ last.op = "list_instruments" =>
         /\ Len(last.result) = Cardinality(instruments)
         /\ \A i \in 1..Len(last.result) :
              ReadOf(last.result[i], instruments)

C19_Witness ==
    /\ last.op = "list_instruments"
    /\ last.omitted = _OPTIONAL_FIELDS
    /\ Len(last.result) = 2
    /\ last.result[1].v["exchange"] = {}
    /\ last.result[2].v["exchange"] = {"5"}

\* C20: a stored candle is never changed and never removed: every step keeps
\* each stored candle with the values it was first written with, and adds no
\* second candle for a key that is already held - so a candle offered with
\* the key of a stored one and other prices leaves the stored values in place.
C20_StoredCandlesImmutable ==
    [][/\ \A r \in BagToSet(candles) :
            CopiesIn(r, candles') >= CopiesIn(r, candles)
       /\ \A r \in BagToSet(candles') :
            CandleKey(r) \in KeysOf(candles) => r \in BagToSet(candles)]_vars

C20_Witness ==
    /\ CleanInsert
    /\ last.candles = <<[timestamp |-> 1, close |-> 2]>>
    /\ CandleRow([timestamp |-> 1, close |-> 1], last.instrument_etoro_id,
                 last.timeframe) \in BagToSet(last.before)
    /\ candles = last.before
    /\ last.result = <<>>


SnapshotIds(table) == {table[i].id : i \in 1..Len(table)}
HasId(value) == value.t = "dict" /\ "id" \in DOMAIN value.v
\* ------------------------------------------------------------------------
\* C22: create_report raises whenever the write hands back no record or a
\* record without an id field, and a record it returns always has an id.
\* ------------------------------------------------------------------------
C22_ReportHasIdentityOrRaises ==
    last.op = "create_report" =>
        /\ last.outcome # "created" => last.raised # "none"
        /\ last.raised = "none" => HasId(last.result)

\* ------------------------------------------------------------------------
\* C23: when the write of create_recommendation hands back no record or a
\* record without an id field the call raises ValueError, which is not the
\* RuntimeError of a failed report or snapshot write; a call that returns
\* hands back the record that was created, id included.
\* ------------------------------------------------------------------------
C23_RecommendationRaisesOwnError ==
    last.op = "create_recommendation" =>
        /\ (last.db_calls = 1 /\ last.outcome # "created") =>
               (last.raised = "ValueError" /\ last.raised # "RuntimeError")
        /\ last.raised = "none" =>
               /\ HasId(last.result)
               /\ Len(recommendations) = Len(last.before[2]) + 1
               /\ last.result = PyDict(recommendations[Len(recommendations)])

C23_Witness ==
    /\ last.op = "create_recommendation"
    /\ last.outcome = "no_id"
    /\ last.db_calls = 1
    /\ last.raised = "ValueError"

\* ------------------------------------------------------------------------
\* C24: every stored recommendation references a stored report and a stored
\* instrument (a create whose references dangle stores nothing).
\* ------------------------------------------------------------------------
C24_RecommendationsReferenceStoredRecords ==
    \A i \in 1..Len(recommendations) :
        /\ \E j \in 1..Len(reports) :
               reports[j].id = recommendations[i].report
        /\ \E ins \in instruments :
               recommendations[i].instrument = RecordID(<<"instrument">>, ins.id)

Malformed(id_str) ==
    ~ \E k \in 2..(Len(id_str) - 1) :
          id_str[k] = ":" /\ \A j \in 1..(k - 1) : id_str[j] # ":"
\* ------------------------------------------------------------------------
\* C25: create_report, create_recommendation and
\* get_recommendations_for_report raise ValueError without any storage call
\* when an identifier passed to them has no colon, or nothing before or
\* nothing after its first colon; the tables are as before the call.
\* ------------------------------------------------------------------------
C25_MalformedIdentifierRejected ==
    (/\ last.op \in {"create_report", "create_recommendation",
                     "get_recommendations_for_report"}
     /\ \E i \in 1..Len(last.ids) : Malformed(last.ids[i]))
    => /\ last.raised = "ValueError"
       /\ last.db_calls = 0
       /\ <<reports, recommendations>> = last.before

C25_Witness ==
    /\ last.op = "create_recommendation"
    /\ ~Malformed(last.ids[1])
    /\ last.ids[2] = <<"analysis">>
    /\ last.outcome = "created"
    /\ last.raised = "ValueError"
    /\ Len(reports) = 1


IsMap(x) == x.t = "dict"
HasResultKey(x) == IsMap(x) /\ "result" \in DOMAIN x.v
Unwrapped(inner) ==
    IF inner.t = "list" THEN inner.v
    ELSE IF IsMap(inner) THEN <<inner>>
    ELSE <<>>
ListOfMaps(r) ==
    r.t = "list" /\ Len(r.v) > 0 /\ \A i \in 1..Len(r.v) : IsMap(r.v[i])
OneWrapper(r) == r.t = "list" /\ Len(r.v) = 1 /\ HasResultKey(r.v[1])
\* ------------------------------------------------------------------------
\* C26: normalise_response never raises and gives: [] for null; [m] for a
\* single map m; [] for the empty list; the list itself for a list of maps;
\* for a one-element list whose map has a result key the inner list, or the
\* one-element list of the inner map, or [] when the inner value is null;
\* [] for any other value.
\* ------------------------------------------------------------------------
C26_DocumentedShapes ==
    last.op = "normalise_response" =>
        /\ last.raised = "none"
        /\ last.result =
              IF IsMap(last.response) THEN <<last.response>>
              ELSE IF OneWrapper(last.response)
                   THEN Unwrapped(last.response.v[1].v["result"])
              ELSE IF ListOfMaps(last.response) THEN last.response.v
              ELSE <<>>


DefinedTables == {k[2] : k \in {x \in DOMAIN schema.defs : x[1] = "table"}}
UniqueIndexes ==
    {k[2] : k \in {x \in DOMAIN schema.defs :
                      /\ x[1] = "index"
                      /\ schema.defs[x][Len(schema.defs[x])] = "UNIQUE"}}
\* ------------------------------------------------------------------------
\* C27: apply_schema raises nothing and leaves the stored records as they
\* were; after any application the eight expected tables and the five
\* expected unique indexes are defined; applied to a store it was already
\* applied to, it leaves the tables, fields and indexes exactly as they were.
\* ------------------------------------------------------------------------
C27_ApplySchemaIdempotent ==
    last.op = "apply_schema" =>
        /\ last.raised = "none"
        /\ snapshots = last.before.snapshots
        /\ EXPECTED_TABLES \subseteq DefinedTables
        /\ EXPECTED_INDEXES \subseteq UniqueIndexes
        /\ last.before.applied >= 1 => schema.defs = last.before.defs

C27_Witness ==
    /\ last.op = "apply_schema"
    /\ schema.applied = 2
    /\ Len(last.before.snapshots) = 1
    /\ <<"field", "ticker", "instrument">> \in DOMAIN schema.defs


\* ------------------------------------------------------------------------
\* C28: once a session has ended, by normal completion, by an exception of
\* the body or by a failure of its entry, no handle the Orchestrator opened
\* itself is still open.
\* ------------------------------------------------------------------------
C28_HandlesReleasedWhenSessionEnds ==
    session.orch.pc = "ended" =>
        \A i \in DOMAIN session.handles :
            session.handles[i].owned => ~session.handles[i].open


AuthStatus(o) == o.exc = "none" /\ o.status \in {401, 403}
FailingStatus(o) == o.exc = "none" /\ o.status >= 400
Transient(o) ==
    o.exc # "none" \/ o.status = 429 \/ (o.status >= 500 /\ o.status <= 599)
Attempts == Len(request.outcomes)
\* ------------------------------------------------------------------------
\* C29: a 401 or 403 response makes request raise EToroAuthError with no
\* attempt after it; a request that fails on anything else (another 4xx, a
\* 5xx, a transport error) raises EToroRequestError; a response that is
\* returned never has a failing status.
\* ------------------------------------------------------------------------
C29_AuthErrorAtOnceElseRequestError ==
    /\ \A i \in 1..Attempts :
           AuthStatus(request.outcomes[i]) =>
               /\ i = Attempts
               /\ request.pc = "raised"
               /\ request.raised = "EToroAuthError"
    /\ (request.pc = "raised" /\ Attempts > 0
           /\ ~AuthStatus(request.outcomes[Attempts])) =>
           request.raised = "EToroRequestError"
    /\ \A i \in 1..Attempts :
           (FailingStatus(request.outcomes[i])
              /\ ~AuthStatus(request.outcomes[i])
              /\ ~Transient(request.outcomes[i])) =>
               /\ i = Attempts
               /\ request.pc = "raised"
               /\ request.raised = "EToroRequestError"
    /\ request.pc = "returned" =>
           /\ request.response = request.outcomes[Attempts]
           /\ ~FailingStatus(request.response)
           /\ request.response.exc = "none"

C29_Witness ==
    /\ request.pc = "raised"
    /\ request.raised = "EToroAuthError"
    /\ request.max_retries = 3
    /\ Attempts = 2
    /\ request.outcomes[1] = Response(500)
    /\ request.outcomes[2] = Response(403)

Delays(n) == [k \in 1..n |-> request.backoff_base * 2^(k - 1)]
RequestBounded ==
    /\ Attempts <= request.max_retries
    /\ \A i \in 1..(Attempts - 1) : Transient(request.outcomes[i])
    /\ request.pc = "running" =>
           /\ \A i \in 1..Attempts : Transient(request.outcomes[i])
           /\ request.sleeps = Delays(Attempts)
           /\ Attempts < request.max_retries \/ request.max_retries = 0
    /\ request.pc \in {"returned", "raised"} =>
           request.sleeps = Delays(IF Attempts = 0 THEN 0 ELSE Attempts - 1)
    /\ \A i \in 1..Attempts :
           (~Transient(request.outcomes[i])
              /\ ~FailingStatus(request.outcomes[i])) =>
               /\ i = Attempts
               /\ request.pc = "returned"
               /\ request.response = request.outcomes[i]
    /\ (Attempts = request.max_retries /\ Attempts > 0
           /\ Transient(request.outcomes[Attempts])) =>
           (request.pc = "raised" /\ request.raised = "EToroRequestError")
\* ------------------------------------------------------------------------
\* C30: request makes at most max_retries HTTP attempts and then ends; it
\* goes on to another attempt only after a transport error, a 429 or a 5xx;
\* the first response that is no error is returned; after the k-th failed
\* attempt it sleeps backoff_base * 2^(k-1), and only if another attempt
\* follows; it raises EToroRequestError when attempt number max_retries
\* still fails; every request that is running comes to an end.
\* ------------------------------------------------------------------------
C30_RequestTerminatesWithinMaxRetries ==
    /\ []RequestBounded
    /\ (request.pc = "running") ~> (request.pc \in {"returned", "raised"})

C30_Witness ==
    /\ request.pc = "returned"
    /\ request.max_retries = 4
    /\ request.backoff_base = 10
    /\ request.outcomes =
           <<Response(500), TransportError, Response(429), Response(200)>>
    /\ request.sleeps = <<10, 20, 40>>


\* two lookups that succeeded one right after the other at the same instant
LookupOps == {"search_instruments", "get_instrument_by_symbol"}
Fetched(c) == c.op \in LookupOps /\ c.raised \in {"none", "InstrumentNotFoundError"}
\* ------------------------------------------------------------------------
\* C31: catalog lookups repeated through one client within the cache TTL
\* issue one HTTP request to the catalog endpoint in all: a lookup that
\* follows a lookup which got the catalog, with no time passed and no
\* clear_cache() in between, sends no request of its own.
\* ------------------------------------------------------------------------
C31_RepeatedLookupUsesCache ==
    \A i \in 1..(Len(api.calls) - 1) :
        (/\ Fetched(api.calls[i])
         /\ api.calls[i + 1].op \in LookupOps
         /\ api.calls[i + 1].raised # "ValueError"
         /\ api.calls[i + 1].at = api.calls[i].at)
        => api.calls[i + 1].requests = 0

\* ------------------------------------------------------------------------
\* C32: the snapshot a run stored has cash_available = the portfolio's
\* credit, total_pnl = the portfolio's unrealized P&L (0 when it carries
\* none), total_value = cash_available + total_pnl, open_positions = the
\* number of position entries (two positions in one instrument count twice)
\* and run_type = the run's run_type.
\* ------------------------------------------------------------------------
C32_SnapshotFields ==
    run.snapshot_id # 0 =>
        LET stored == snapshots[run.snapshot_id]
            portfolio == run.portfolio
        IN /\ stored.cash_available = portfolio.credit
           /\ \/ portfolio.unrealized_pnl = {} /\ stored.total_pnl = 0
              \/ stored.total_pnl \in portfolio.unrealized_pnl
           /\ stored.total_value = stored.cash_available + stored.total_pnl
           /\ stored.open_positions = Len(portfolio.positions)
           /\ stored.run_type = run.run_type

C32_Witness ==
    /\ pc = "done"
    /\ run.run_type = "market_close"
    /\ run.portfolio.positions = <<2, 1, 2>>
    /\ run.snapshot_id = 2
    /\ snapshots[2].open_positions = 3
    /\ snapshots[2].cash_available = 10
    /\ snapshots[2].total_pnl = 3
    /\ snapshots[2].total_value = 13
    /\ snapshots[2].run_type = "market_close"

Running ==
    pc \in {"fetch_portfolio", "create_snapshot", "resolve_instruments",
            "process_instruments"}
SinglePass ==
    /\ Cardinality(CallsFor("get_portfolio", 0)) <= 1
    /\ Cardinality(CallsFor("get_instruments", 0)) <= 1
    /\ \A iid \in InstrumentIds :
         Cardinality(CallsFor("get_candles", iid)) <= 1
    /\ pc = "done" => run.summary # NoSummary /\ run.raised = "none"
    /\ pc = "raised" => run.raised # "none" /\ run.summary = NoSummary
\* ------------------------------------------------------------------------
\* C33: a run_data_pipeline call is one pass without retries: it calls the
\* portfolio collaborator at most once, the catalog collaborator at most
\* once and the candle collaborator at most once per instrument, and, every
\* collaborator call returning or raising, it ends with a summary or with a
\* raised error.
\* ------------------------------------------------------------------------
C33_SinglePassTerminates ==
    /\ []SinglePass
    /\ Running ~> (pc \in {"done", "raised"})

C33_Witness ==
    /\ pc = "done"
    /\ run.portfolio.positions = <<2, 1, 2>>
    /\ Len(run.errors) = 1
    /\ run.errors[1].instrument_id = 1
    /\ Cardinality(CallsFor("get_portfolio", 0)) = 1
    /\ Cardinality(CallsFor("get_instruments", 0)) = 1
    /\ Cardinality(CallsFor("get_candles", 1)) = 1
    /\ Cardinality(CallsFor("get_candles", 2)) = 1
    /\ run.summary.instruments_failed = 1

\* the IDs the catalog response of the run holds valid metadata for
CatalogResponse ==
    IF <<"catalog", 0>> \in DOMAIN world /\ EventsAt({"get_instruments"}) # {}
    THEN world[<<"catalog", 0>>]
    ELSE [outcome |-> "none"]
ValidCatalogIds ==
    IF CatalogResponse.outcome = "ok"
    THEN {it.instrumentID : it \in {x \in CatalogResponse.items : x.valid}}
    ELSE {}
\* the candles the market-data collaborator returned for iid, if it did
FetchedFor(iid) ==
    IF /\ <<"candles", iid>> \in DOMAIN world
       /\ world[<<"candles", iid>>].outcome = "ok"
    THEN world[<<"candles", iid>>].candles
    ELSE <<>>
\* ------------------------------------------------------------------------
\* C34: a run upserts an instrument only when its ID is referenced by an
\* open position of the fetched portfolio and the catalog response holds
\* valid metadata for it: no other ID is written to the instrument table;
\* and when the run is done, an instrument of the portfolio that is missing
\* from the catalog or fails validation was not upserted, while its candles
\* were fetched once and, when the fetch gave candles, inserted.
\* ------------------------------------------------------------------------
C34_UpsertOnlyResolvedPositions ==
    /\ \A k \in EventsAt({"upsert_instrument"}) :
         run.calls[k].id \in PositionIds \cap ValidCatalogIds
    /\ runs > 0 =>
         \A r \in instruments \ before.instruments :
            r.etoro_id \in PositionIds \cap ValidCatalogIds
    /\ pc = "done" =>
         \A iid \in PositionIds \ ValidCatalogIds :
            /\ CallsFor("upsert_instrument", iid) = {}
            /\ Cardinality(CallsFor("get_candles", iid)) = 1
            /\ FetchedFor(iid) # <<>> =>
                 /\ Cardinality(CallsFor("bulk_insert_candles", iid)) = 1
                 /\ iid \notin run.insert_failed =>
                      \A i \in 1..Len(FetchedFor(iid)) :
                         <<iid, "1d", FetchedFor(iid)[i].timestamp>>
                             \in KeysOf(candles)

C34_Witness ==
    /\ pc = "done"
    /\ run.portfolio.positions = <<2, 1, 2>>
    /\ CatalogResponse.outcome = "ok"
    /\ ValidCatalogIds = {2}
    /\ \E x \in CatalogResponse.items : x.instrumentID = 1 /\ ~x.valid
    /\ CallsFor("upsert_instrument", 1) = {}
    /\ CallsFor("upsert_instrument", 2) # {}
    /\ Len(FetchedFor(1)) = 2
    /\ 1 \notin run.insert_failed
    /\ {<<1, "1d", 1>>, <<1, "1d", 2>>} \subseteq KeysOf(candles)
    /\ {r.etoro_id : r \in instruments} = {2}

\* ------------------------------------------------------------------------
\* C35: in every session of an Orchestrator, with a database handle of its
\* own or with one the caller gave it, apply_schema was invoked once when
\* the session started, before the body of the session runs a pipeline.
\* ------------------------------------------------------------------------
C35_SchemaAppliedAtSessionStart ==
    session.orch.pc \in {"entered", "exiting"} => session.orch.applied = 1

\* ------------------------------------------------------------------------
\* C36: for every input value, every element of the list normalise_response
\* returns is a key-value map - also for a list that mixes maps with other
\* items and for a wrapper whose inner result list holds other items - and
\* first_or_none returns the first element of that list, or None exactly
\* when the list is empty.
\* ------------------------------------------------------------------------
C36_EveryRecordIsAMap ==
    last.op = "normalise_response" =>
        /\ \A i \in 1..Len(last.result) : IsMap(last.result[i])
        /\ last.first = IF last.result = <<>> THEN PyNone
                        ELSE last.result[1]
        /\ last.first = PyNone <=> last.result = <<>>

\* inserting rows one by one, in order, skipping a row whose key is held
RECURSIVE OneByOne(_, _, _, _)
OneByOne(table, rows, i, inserted) ==
    IF i > Len(rows) THEN [table |-> table, inserted |-> inserted]
    ELSE IF CandleKey(rows[i]) \in KeysOf(table)
    THEN OneByOne(table, rows, i + 1, inserted)
    ELSE OneByOne(table (+) SetToBag({rows[i]}), rows, i + 1,
                  Append(inserted, PyDict(rows[i])))
\* ------------------------------------------------------------------------
\* C37: for every candle store and every batch - also a batch with
\* duplicates of its own and a batch that partly overlaps the store - the
\* store after bulk_insert_candles and the list it returns are those of
\* inserting the candles of the batch one by one, in order, each one
\* skipped when its key is already held (the storage answering without
\* fault).
\* ------------------------------------------------------------------------
C37_BulkEqualsOneByOne ==
    CleanInsert =>
        LET ref == OneByOne(last.before, RowsOf(last), 1, <<>>) IN
        /\ last.raised = "none"
        /\ candles = ref.table
        /\ last.result = ref.inserted

C37_Witness ==
    /\ CleanInsert
    /\ last.before # EmptyBag
    /\ Len(last.candles) = 2
    /\ CandleKey(RowsOf(last)[1]) \in KeysOf(last.before)
    /\ CandleKey(RowsOf(last)[2]) \notin KeysOf(last.before)
    /\ last.result = <<PyDict(RowsOf(last)[2])>>
    /\ candles = last.before (+) SetToBag({RowsOf(last)[2]})

\* ------------------------------------------------------------------------
\* C38: whenever upsert_instrument returns a record without raising - also
\* when the write gave no record back - a get_instrument_by_etoro_id for
\* the same external ID that follows returns a record with the same symbol
\* and name.
\* ------------------------------------------------------------------------
C38_UpsertReportsWhatIsStored ==
    (Upserted /\ last.raised = "none" /\ last.result # PyNone) =>
        LET got == get_instrument_by_etoro_id(
                       instruments, last.instrument.instrument_id,
                       last.omitted)
        IN /\ got # PyNone
           /\ got.v.symbol = last.result.v.symbol
           /\ got.v.name = last.result.v.name

\* the handle h of the Orchestrator is one a caller opened and it is open
GivenAndOpen(h, kind) ==
    /\ h \in DOMAIN session.handles
    /\ session.handles[h] = [kind |-> kind, owned |-> FALSE, open |-> TRUE]
HandlesKept ==
    /\ \A i \in DOMAIN session.handles :
         ~session.handles[i].owned => session.handles[i].open
    /\ session.orch.pc # "none" =>
         /\ ~session.orch.owns_client =>
              GivenAndOpen(session.orch.client, "client")
         /\ ~session.orch.owns_db =>
              GivenAndOpen(session.orch.db, "db") /\ session.orch.db_ctx = 0
SameOrchestrator ==
    session.orch.pc \in {"constructed", "entered", "exiting"}
\* ------------------------------------------------------------------------
\* C39: an Orchestrator never releases or replaces a handle it was given:
\* a client or database handle passed to the constructor is still open, and
\* still the handle the Orchestrator holds, when the session is entered and
\* when it is left; the handles closed at session exit are handles the
\* Orchestrator created itself.
\* ------------------------------------------------------------------------
C39_GivenHandlesKept ==
    /\ []HandlesKept
    /\ [][SameOrchestrator =>
            /\ ~session.orch.owns_client =>
                 session'.orch.client = session.orch.client
            /\ ~session.orch.owns_db =>
                 session'.orch.db = session.orch.db
            /\ \A i \in DOMAIN session.handles :
                 session'.handles[i] # session.handles[i] =>
                    session.handles[i].owned]_vars

C39_Witness ==
    /\ session.orch.pc = "ended"
    /\ session.orch.exc = "PipelineError"
    /\ ~session.orch.owns_client
    /\ session.orch.owns_db
    /\ session.orch.client = 1
    /\ session.handles =
         <<[kind |-> "client", owned |-> FALSE, open |-> TRUE],
           [kind |-> "db", owned |-> TRUE, open |-> FALSE]>>

====
